---- MODULE Spec2Model ----
(***************************************************************************)
(* A model of the flickr-downloader package (src/flickr_downloader/):      *)
(*   - the rate-limited remote caller, FlickrAPIClient.call_with_retries;  *)
(*   - the orchestrator's run over the albums: scan, duplicate resolution, *)
(*     the download scheduler, the completion verifier and the retry pass. *)
(* Each part has its own specification over the same variables; the part   *)
(* a specification does not exercise stays in its initial state.           *)
(***************************************************************************)
EXTENDS Integers, Sequences, FiniteSets, TLC

(***************************************************************************)
(* Part 1.  FlickrAPIClient.call_with_retries (api/client.py)              *)
(***************************************************************************)

\* Time is counted in ticks of 1/80 s, the coarsest unit in which the call
\* delay (1.1 s) and every backoff value 2 * 2^a * 2.5^b below the cap are
\* whole numbers.
TicksPerSecond == 16 * 5

\* config.py: retry/backoff settings, in seconds.
MAX_RETRIES == 5
INITIAL_BACKOFF == 2
MAX_BACKOFF == 60
\* config.py:51  API_CALL_DELAY (default 1.1 s), in ticks.
API_CALL_DELAY == (11 * TicksPerSecond) \div 10

\* Bounds of the caller model.
MaxThreads == 2
\* How many attempts the remote service lets fail when several threads call.
MaxFailures == 1

Threads == 1..MaxThreads

\* What one invocation of the remote operation func(*args, **kwargs) does:
\*   ok           it returns a result
\*   rate_limit   flickrapi FlickrError with code 429 or 503
\*   flickr_error flickrapi FlickrError with any other code, or with none
\*   network      requests RequestException / Timeout
\*   other        any other exception (KeyError, ValueError, ...)
Outcomes == {"ok", "rate_limit", "flickr_error", "network", "other"}
Failures == Outcomes \ {"ok"}

\* What the remote operation may return.
Results == {"r1", "r2"}
NoResult == "none"

\* How long one invocation of the remote operation may take, in ticks.
CallDurations == {0, API_CALL_DELAY \div 2}
\* When a thread may enter call_with_retries, in ticks after the start.
StartDelays == {0, API_CALL_DELAY \div 2}

None == -1

Min(a, b) == IF a <= b THEN a ELSE b
Max(a, b) == IF a >= b THEN a ELSE b

VARIABLES
    active,          \* the threads that call call_with_retries
    failures_left,   \* failures the remote service may still produce
    api_lock,        \* self.api_lock: 0 when free, else the holder
    last_call_time,  \* self.last_call_time: None, or the time elapsed since
                     \* it was recorded (capped at API_CALL_DELAY)
    pc,              \* per thread: its position in call_with_retries
    attempt,         \* per thread: the loop variable
    backoff,         \* per thread: the local backoff, in ticks
    timer,           \* per thread: ticks left of a sleep or of a running call
    outcome,         \* per thread: what the current invocation of func does
    calls,           \* per thread: invocations of func made so far
    sleeps,          \* per thread: backoff sleeps made so far
    retryable,       \* per thread: failures handled by a retry so far
    since_invoke,    \* time elapsed since func was last invoked by anyone
                     \* (None before the first; capped at API_CALL_DELAY)
    last_gap,        \* since_invoke as it was at the latest invocation
    in_func,         \* the threads now executing func
    func_value,      \* per thread: what the running invocation of func returns
    result           \* per thread: what call_with_retries returned

callerVars == <<active, failures_left, api_lock, last_call_time, pc, attempt,
                backoff, timer, outcome, calls, sleeps, retryable,
                since_invoke, last_gap, in_func, func_value, result>>

\* The state of one run of FlickrDownloaderApp.run (Part 2).
VARIABLES
    albums,           \* the remote album list, in listing order (names)
    listing,          \* per album name: the ids of the items it holds
    videos,           \* the items whose media kind is 'video'
    ext_corrected,    \* the items whose content-type extension differs from
                      \* the extension of their URL
    public,           \* the items people.getPhotos lists (privacy_filter=1)
    args_album,       \* args.album: TRUE when an album pattern is given
    download_video,   \* config.DOWNLOAD_VIDEO
    url_cache,        \* cache/url_cache.json and its copy in memory: the
                      \* items whose URL and media type are cached
    progress_doc,     \* cache/progress.json: the persisted "downloaded_ids"
    disk,             \* per <<directory, item>>: the size class of its file
    downloaded_ids,   \* the in-memory Progress Set
    photo_locations,  \* per item: the albums holding it, in scan order
    album_summaries,  \* the download plan: [album, to_download, skipped], in
                      \* the order of the album_summaries dict
    rpc,              \* where the orchestrator is
    k,                \* index of the album loop it is in
    issues,           \* albums_with_verification_issues
    pd_album,         \* process_downloads: album_title
    pd_items,         \* process_downloads: the ids of photo_ids
    pd_ctx,           \* the pass that called it: first, retry
    tasks,            \* download_tasks: ids with a fetch task not yet run
    results,          \* per id: the result its finished fetch task returned
    counts,           \* downloaded, skipped, failed of the current call
    runs,             \* runs of the program started so far
    verdict,          \* what the check made in the step just taken found:
                      \* "pass", "fail" or "error" (True returned by the
                      \* except clause) for verify_album_completion,
                      \* "rejected" for the pool driver's check of a file
                      \* reported as downloaded, "none" in any other step
    direct            \* the remote methods the step just taken invoked on
                      \* the flickr object itself, not through
                      \* call_with_retries

runVars == <<albums, listing, videos, ext_corrected, public, args_album,
             download_video, url_cache, progress_doc, disk, downloaded_ids,
             photo_locations, album_summaries, rpc, k, issues, pd_album,
             pd_items, pd_ctx, tasks, results, counts, runs, verdict,
             direct>>

\* One call of get_original_url_and_info for an item that is not in the URL
\* cache, and what _prepare_download_tasks does with its answer (Part 3).
VARIABLES
    sel_pc,           \* where the call is
    sizes,            \* the size list photos.getSizes answers with
    media_type,       \* photo_info.get('media', 'photo')
    url_info,         \* the URL it returned (the position of its entry in
                      \* the size list), or None
    sel_result,       \* the value it returned: <<d>> for the result dict
                      \* d, <<>> for None
    asked,            \* the remote methods the call has asked for so far
    cache_mem,        \* the url_cache dict in memory, as a function from
                      \* the item ids that have a key '<id>_info'
    cache_doc         \* the dict cache/url_cache.json holds, likewise

selVars == <<sel_pc, sizes, media_type, url_info, sel_result, asked,
             cache_mem, cache_doc>>

\* The start of FlickrDownloaderApp.run, up to the scan (Part 4).
VARIABLES
    config,           \* the Config attributes validate() and run() read
    st_pc,            \* where run() is
    remote,           \* the remote methods asked for so far
    made,             \* the directories and files created so far, each
                      \* path as the sequence of its components below the
                      \* working directory
    loaded            \* the documents loaded so far

startVars == <<config, st_pc, remote, made, loaded>>

\* The fetch tasks of one batch and the worker pool that runs them (Part 5).
VARIABLES
    fate,             \* per item: what its fetch task does when it runs
    in_worker,        \* the tasks a worker of the pool is running
    req,              \* download_file: the extension of filepath, the
                      \* media_type, and the status and the content type
                      \* of the response
    written           \* the extension of the path download_file wrote to

poolVars == <<fate, in_worker, req, written>>

vars == <<callerVars, runVars, selVars, startVars, poolVars>>

Age(clock, d) == IF clock = None THEN None ELSE Min(clock + d, API_CALL_DELAY)

\* The growth after a network error as it would be without the cap.
NetworkBackoffUncapped(b) == (b * 5) \div 2

\* client.py:55  backoff = min(backoff * 2.5, config.MAX_BACKOFF)
NetworkBackoff(b) == Min((b * 5) \div 2, MAX_BACKOFF * TicksPerSecond)

\* client.py:59  backoff = min(backoff * 2, config.MAX_BACKOFF)
DoubleBackoff(b) == Min(b * 2, MAX_BACKOFF * TicksPerSecond)

\* client.py:30-33  the sleep the rate gate asks for (0: none)
GateSleep(last) ==
    IF last # None /\ last < API_CALL_DELAY THEN API_CALL_DELAY - last ELSE 0

\* An except clause that would catch every exception but the network ones.
CatchesEveryError(o) == o \in {"rate_limit", "flickr_error", "other"}

\* client.py:43-56  which exceptions the two except clauses catch
IsFlickrError(o) == o \in {"rate_limit", "flickr_error"}
IsNetworkError(o) == o = "network"

\* The loop as it would be with one iteration more.
AfterAttemptOneMore(t) ==
    IF attempt[t] <= MAX_RETRIES
    THEN /\ attempt' = [attempt EXCEPT ![t] = @ + 1]
         /\ pc' = [pc EXCEPT ![t] = "acquire"]
    ELSE /\ attempt' = attempt
         /\ pc' = [pc EXCEPT ![t] = "raised_exceeded"]

\* client.py:26, 61  the for loop's next iteration, or the RuntimeError
AfterAttempt(t) ==
    IF attempt[t] < MAX_RETRIES
    THEN /\ attempt' = [attempt EXCEPT ![t] = @ + 1]
         /\ pc' = [pc EXCEPT ![t] = "acquire"]
    ELSE /\ attempt' = attempt
         /\ pc' = [pc EXCEPT ![t] = "raised_exceeded"]

\* client.py:22-26  a thread enters call_with_retries
Enter(t) ==
    /\ pc[t] = "idle" /\ timer[t] = 0
    /\ pc' = [pc EXCEPT ![t] = "acquire"]
    /\ backoff' = [backoff EXCEPT ![t] = INITIAL_BACKOFF * TicksPerSecond]
    /\ attempt' = [attempt EXCEPT ![t] = 1]
    /\ UNCHANGED <<func_value, result, active, failures_left, api_lock,
                   last_call_time, timer, outcome, calls, sleeps, retryable,
                   since_invoke, last_gap, in_func>>
    /\ UNCHANGED <<runVars, selVars, startVars, poolVars>>

\* The rate gate as it would be entered without taking the lock.
AcquireUnlocked(t) ==
    /\ pc[t] = "acquire"
    /\ api_lock' = t
    /\ timer' = [timer EXCEPT ![t] = GateSleep(last_call_time)]
    /\ pc' = [pc EXCEPT ![t] = "gate"]
    /\ UNCHANGED <<func_value, result, active, failures_left, last_call_time,
                   attempt, backoff, outcome, calls, sleeps, retryable,
                   since_invoke, last_gap, in_func>>
    /\ UNCHANGED <<runVars, selVars, startVars, poolVars>>

\* client.py:28-33  with self.api_lock: the rate limiting delay
Acquire(t) ==
    /\ pc[t] = "acquire" /\ api_lock = 0
    /\ api_lock' = t
    /\ timer' = [timer EXCEPT ![t] = GateSleep(last_call_time)]
    /\ pc' = [pc EXCEPT ![t] = "gate"]
    /\ UNCHANGED <<func_value, result, active, failures_left, last_call_time,
                   attempt, backoff, outcome, calls, sleeps, retryable,
                   since_invoke, last_gap, in_func>>
    /\ UNCHANGED <<runVars, selVars, startVars, poolVars>>

\* client.py:39  result = func(*args, **kwargs): the invocation starts
Invoke(t) ==
    /\ pc[t] = "gate" /\ timer[t] = 0
    /\ \E o \in Outcomes, d \in CallDurations, v \in Results :
         /\ o \in Failures => failures_left > 0 /\ v = "r1"
         /\ outcome' = [outcome EXCEPT ![t] = o]
         /\ func_value' = [func_value EXCEPT ![t] =
                              IF o = "ok" THEN v ELSE NoResult]
         /\ timer' = [timer EXCEPT ![t] = d]
         /\ failures_left' = IF o \in Failures THEN failures_left - 1
                                               ELSE failures_left
    /\ pc' = [pc EXCEPT ![t] = "in_call"]
    /\ calls' = [calls EXCEPT ![t] = @ + 1]
    /\ last_gap' = since_invoke
    /\ since_invoke' = 0
    /\ in_func' = in_func \cup {t}
    /\ UNCHANGED <<active, api_lock, last_call_time, attempt, backoff, sleeps,
                   retryable, result>>
    /\ UNCHANGED <<runVars, selVars, startVars, poolVars>>

\* client.py:39-41  func returns: the timestamp is recorded, the lock released
Return(t) ==
    /\ pc[t] = "in_call" /\ timer[t] = 0 /\ outcome[t] = "ok"
    /\ last_call_time' = 0
    /\ api_lock' = 0
    /\ in_func' = in_func \ {t}
    /\ result' = [result EXCEPT ![t] = func_value[t]]
    /\ pc' = [pc EXCEPT ![t] = "returned"]
    /\ UNCHANGED <<active, failures_left, attempt, backoff, timer, outcome,
                   calls, sleeps, retryable, since_invoke, last_gap,
                   func_value>>
    /\ UNCHANGED <<runVars, selVars, startVars, poolVars>>

\* client.py:43-50, 58  func raises FlickrError: the lock is released by the
\* with block, the message is printed, and the thread sleeps for backoff
CatchFlickrError(t) ==
    /\ pc[t] = "in_call" /\ timer[t] = 0 /\ IsFlickrError(outcome[t])
    /\ api_lock' = 0
    /\ in_func' = in_func \ {t}
    /\ retryable' = [retryable EXCEPT ![t] = @ + 1]
    /\ timer' = [timer EXCEPT ![t] = backoff[t]]
    /\ sleeps' = [sleeps EXCEPT ![t] = @ + 1]
    /\ pc' = [pc EXCEPT ![t] = "backoff_sleep"]
    /\ UNCHANGED <<func_value, result, active, failures_left, last_call_time,
                   attempt, backoff, outcome, calls, since_invoke, last_gap>>
    /\ UNCHANGED <<runVars, selVars, startVars, poolVars>>

\* client.py:58-59  the backoff sleep is over: backoff doubles, next attempt
WakeFromBackoff(t) ==
    /\ pc[t] = "backoff_sleep" /\ timer[t] = 0
    /\ backoff' = [backoff EXCEPT ![t] = DoubleBackoff(@)]
    /\ AfterAttempt(t)
    /\ UNCHANGED <<func_value, result, active, failures_left, api_lock,
                   last_call_time, timer, outcome, calls, sleeps, retryable,
                   since_invoke, last_gap, in_func>>
    /\ UNCHANGED <<runVars, selVars, startVars, poolVars>>

\* client.py:52-56  func raises RequestException or Timeout: the lock is
\* released, backoff grows by 2.5 and `continue` starts the next attempt
CatchNetworkError(t) ==
    /\ pc[t] = "in_call" /\ timer[t] = 0 /\ IsNetworkError(outcome[t])
    /\ api_lock' = 0
    /\ in_func' = in_func \ {t}
    /\ retryable' = [retryable EXCEPT ![t] = @ + 1]
    /\ backoff' = [backoff EXCEPT ![t] = NetworkBackoff(@)]
    /\ AfterAttempt(t)
    /\ UNCHANGED <<func_value, result, active, failures_left, last_call_time,
                   timer, outcome, calls, sleeps, since_invoke, last_gap>>
    /\ UNCHANGED <<runVars, selVars, startVars, poolVars>>

\* client.py:39-43  func raises an exception no except clause names: the
\* with block releases the lock and the exception leaves call_with_retries
Propagate(t) ==
    /\ pc[t] = "in_call" /\ timer[t] = 0
    /\ ~IsFlickrError(outcome[t]) /\ ~IsNetworkError(outcome[t])
    /\ outcome[t] # "ok"
    /\ api_lock' = 0
    /\ in_func' = in_func \ {t}
    /\ pc' = [pc EXCEPT ![t] = "propagated"]
    /\ UNCHANGED <<func_value, result, active, failures_left, last_call_time,
                   attempt, backoff, timer, outcome, calls, sleeps, retryable,
                   since_invoke, last_gap>>
    /\ UNCHANGED <<runVars, selVars, startVars, poolVars>>

\* Time passes until the next sleep or call ends.
Tick ==
    /\ \E t \in Threads : timer[t] > 0
    /\ LET running == {t \in Threads : timer[t] > 0}
           d == CHOOSE x \in {timer[t] : t \in running} :
                    \A t \in running : x <= timer[t]
       IN /\ timer' = [t \in Threads |-> Max(timer[t] - d, 0)]
          /\ last_call_time' = Age(last_call_time, d)
          /\ since_invoke' = Age(since_invoke, d)
    /\ UNCHANGED <<func_value, result, active, failures_left, api_lock, pc,
                   attempt, backoff, outcome, calls, sleeps, retryable,
                   last_gap, in_func>>
    /\ UNCHANGED <<runVars, selVars, startVars, poolVars>>

InitThreads(A, budget) ==
    /\ active = A
    /\ failures_left = budget
    /\ api_lock = 0
    /\ last_call_time = None
    /\ pc = [t \in Threads |-> IF t \in A THEN "idle" ELSE "absent"]
    /\ attempt = [t \in Threads |-> 0]
    /\ backoff = [t \in Threads |-> 0]
    /\ timer \in [Threads -> StartDelays]
    /\ \A t \in Threads \ A : timer[t] = 0
    /\ outcome = [t \in Threads |-> "ok"]
    /\ calls = [t \in Threads |-> 0]
    /\ sleeps = [t \in Threads |-> 0]
    /\ retryable = [t \in Threads |-> 0]
    /\ since_invoke = None
    /\ last_gap = None
    /\ in_func = {}
    /\ func_value = [t \in Threads |-> NoResult]
    /\ result = [t \in Threads |-> NoResult]

NextCaller ==
    \/ \E t \in active : Enter(t)
    \/ \E t \in active : Acquire(t)
    \/ \E t \in active : Invoke(t)
    \/ \E t \in active : Return(t)
    \/ \E t \in active : CatchFlickrError(t)
    \/ \E t \in active : WakeFromBackoff(t)
    \/ \E t \in active : CatchNetworkError(t)
    \/ \E t \in active : Propagate(t)
    \/ Tick

(***************************************************************************)
(* Part 2.  One run of the downloader: main.py (the orchestrator and the   *)
(* duplicate resolver), download/manager.py (the scheduler) and            *)
(* verification/checker.py (the completion verifier)                       *)
(***************************************************************************)

\* Bounds of the run model.
MaxItems == 2
MaxRuns == 2
MaxSpecial == 1

Items == 1..MaxItems

\* Album names as they are after sanitize_filename (none of them holds a
\* character it replaces).
AlbumNames == {"Trip", "Auto Upload", "Auto Upload 2"}
\* The remote album lists: two albums with distinct names (an album that
\* holds nothing stands for an account with one album).
AlbumOrders == {s \in AlbumNames \X AlbumNames : s[1] # s[2]}

\* config.py:71, 81  name.lower().strip() of an album name
LowerStrip(name) ==
    CASE name = "Trip" -> "trip"
      [] name = "Auto Upload" -> "auto upload"
      [] name = "Auto Upload 2" -> "auto upload 2"

\* config.py:74  the names that are always skipped
AlwaysSkipped == {"auto upload", "auto-upload", "autoupload"}

\* config.py:69-91  should_skip_album, for the configured list skip_albums
ShouldSkipAlbum(album_name, skip_albums) ==
    \/ LowerStrip(album_name) \in AlwaysSkipped
    \/ \E skip_album \in skip_albums :
          /\ LowerStrip(skip_album) \notin AlwaysSkipped
          /\ LowerStrip(album_name) = LowerStrip(skip_album)

\* The size classes of a file: no file, a file of 0 bytes, a file holding a
\* part of the body, a file holding the whole body.
Sizes == {"absent", "empty", "partial", "full"}
\* os.path.exists(path)
FileExists(size) == size # "absent"
\* os.path.getsize(path) > 0
NonZero(size) == size \in {"partial", "full"}

RECURSIVE SetToSeq(_)
\* The members of a set of numbers in ascending order.
SetToSeq(S) ==
    IF S = {} THEN <<>>
    ELSE LET m == CHOOSE x \in S : \A y \in S : x <= y
         IN <<m>> \o SetToSeq(S \ {m})

Range(s) == {s[n] : n \in DOMAIN s}

\* str.startswith
StartsWith(s, prefix) ==
    Len(s) >= Len(prefix) /\ SubSeq(s, 1, Len(prefix)) = prefix

\* client.py:63-92  fetch_album_photos: the album's items, videos left out
\* when video downloads are disabled
FetchAlbumPhotos(a) ==
    IF download_video THEN listing[a] ELSE listing[a] \ videos

RECURSIVE SeenOrder(_, _)
\* main.py:125-146  the ids in the order the scan first meets them, from
\* album n on, after those of acc
SeenOrder(n, acc) ==
    IF n > Len(albums) THEN acc
    ELSE LET New(i) == i \notin Range(acc)
         IN SeenOrder(n + 1,
                acc \o SelectSeq(SetToSeq(FetchAlbumPhotos(albums[n])), New))

\* main.py:144-146  photo_locations: per id the albums holding it
ScanLocations ==
    [i \in Range(SeenOrder(1, <<>>)) |->
        LET Holds(a) == i \in FetchAlbumPhotos(a)
        IN SelectSeq(albums, Holds)]

\* A resolver that would take the first album of the scan for every item.
FirstScannedAlbum(locs) == albums[1]

\* A resolver that would pass over every album named "Auto Upload..." .
PrimaryByPrefix(locs) ==
    LET NotAuto(a) == ~StartsWith(a, "Auto Upload")
        others == SelectSeq(locs, NotAuto)
    IN IF others # <<>> THEN others[1] ELSE locs[1]

\* main.py:203-215  the canonical album of an item found in `locs`
PrimaryAlbum(locs) ==
    IF Len(locs) > 1
    THEN LET NotAuto(a) == a # "Auto Upload"
             others == SelectSeq(locs, NotAuto)
         IN IF others # <<>> THEN others[1] ELSE locs[1]
    ELSE locs[1]

\* main.py:200-219  photos_to_download, album part: id -> canonical album
PhotosToDownload(locations) ==
    [i \in DOMAIN locations |-> PrimaryAlbum(locations[i])]

RECURSIVE Dedupe(_)
\* A sequence without its repeated members, first occurrences kept.
Dedupe(s) ==
    IF s = <<>> THEN <<>>
    ELSE LET rest == Dedupe(SubSeq(s, 1, Len(s) - 1))
         IN IF s[Len(s)] \in Range(rest) THEN rest
            ELSE Append(rest, s[Len(s)])

\* main.py:224-243  album_summaries, in the order of the dict's keys
AlbumSummaries(locations, downloaded) ==
    LET plan == PhotosToDownload(locations)
        order == SeenOrder(1, <<>>)
        names == Dedupe([n \in DOMAIN order |-> plan[order[n]]])
    IN [n \in DOMAIN names |->
          LET mine == {i \in DOMAIN plan : plan[i] = names[n]}
          IN [album |-> names[n],
              to_download |-> mine \ downloaded,
              skipped |-> Cardinality(mine \cap downloaded)]]

\* checker.py:116-121  the album the verifier takes for the primary one
VerifierPrimary(locs) ==
    LET NotAuto(a) == ~StartsWith(a, "Auto Upload")
        others == SelectSeq(locs, NotAuto)
    IN IF others # <<>> THEN others[1] ELSE locs[1]

\* checker.py:107-127  _calculate_cross_album_duplicates
CrossAlbumDuplicates(duplicates_info, album_title) ==
    Cardinality({i \in DOMAIN duplicates_info :
        /\ Len(duplicates_info[i]) > 1
        /\ album_title \in Range(duplicates_info[i])
        /\ album_title # VerifierPrimary(duplicates_info[i])})

\* checker.py:32-62  expected_local_count
ExpectedLocalCount(album_title, duplicates_info) ==
    LET album_photos == FetchAlbumPhotos(album_title)
        unique_photo_ids ==
            {i \in album_photos : i \notin videos \/ download_video}
    IN Cardinality(unique_photo_ids)
         - CrossAlbumDuplicates(duplicates_info, album_title)

\* checker.py:129-145  _count_local_files: the files of the album folder
\* that are not empty; files with a video extension are left out when video
\* downloads are disabled (download_file gives a video item's file one)
CountLocalFiles(album_title) ==
    Cardinality({i \in Items :
        /\ NonZero(disk[<<album_title, i>>])
        /\ download_video \/ i \notin videos})

\* A verdict that would fail on any difference of the two counts.
FailsIfDifferent(album_title, duplicates_info) ==
    ExpectedLocalCount(album_title, duplicates_info)
        - CountLocalFiles(album_title) # 0

\* checker.py:151-153  the verification fails
VerificationFails(album_title, duplicates_info) ==
    ExpectedLocalCount(album_title, duplicates_info)
        - CountLocalFiles(album_title) > 0

\* The reset as it would be over the album's whole remote listing.
ResetWholeListing(album_title, downloaded) ==
    downloaded \ listing[album_title]

\* A reset that would mark again the items whose file is in the folder.
ResetToLocalFiles(album_title, downloaded) ==
    (downloaded \ FetchAlbumPhotos(album_title))
        \cup {i \in Items : NonZero(disk[<<album_title, i>>])}

\* checker.py:162-168  the Progress Set after the reset of a failed album
ResetTracking(album_title, downloaded) ==
    downloaded \ FetchAlbumPhotos(album_title)

Dirs == AlbumNames \cup {"Unsorted"}

\* What a fetch task (download_file) may do with the file at its path:
\*   ok             the body is written, the path returned
\*   ok_empty       the body is empty: a file of 0 bytes, the path returned
\*   error          the request or open() fails: the file is not touched
\*   error_empty    the transfer fails before the first chunk is written
\*   error_partial  the transfer or the write fails after some chunks
FetchOutcomes == {"ok", "ok_empty", "error", "error_empty", "error_partial"}

\* manager.py:54-62  download_file returns an "ERROR: ..." string
IsErrorOutcome(o) == o \in {"error", "error_empty", "error_partial"}

\* manager.py:50-52  open(filepath, 'wb') and the chunks written
WrittenFile(o, old) ==
    CASE o = "ok" -> "full"
      [] o = "ok_empty" -> "empty"
      [] o = "error" -> old
      [] o = "error_empty" -> "empty"
      [] o = "error_partial" -> "partial"

\* What get_original_url_and_info may do for an item on a pass:
\*   url    it returns the URL and media type
\*   none   it returns None (a video while videos are disabled, no candidate,
\*          the size list failed)
\*   raise  it raises (the item info call ran out of retries)
Resolutions == {"url", "none", "raise"}

\* client.py:121-159  what it may do for item i: a cached entry is returned
\* before anything is asked; a video is refused while videos are disabled
ResolutionsOf(i) ==
    IF i \in url_cache THEN {"url"}
    ELSE IF i \in videos /\ ~download_video THEN {"none", "raise"}
    ELSE Resolutions

NoCounts == [downloaded |-> 0, skipped |-> 0, failed |-> 0]

\* manager.py:89  the album folder exists and os.listdir finds nothing
DirIsEmpty(album) == \A i \in Items : ~FileExists(disk[<<album, i>>])

\* A reset that would not look at the album folder.
ResetAlways(album, items, downloaded) == downloaded \ items

\* manager.py:89-93  the tracking reset for an empty album folder
AfterEmptyDirReset(album, items, downloaded) ==
    IF DirIsEmpty(album) /\ items # {} THEN downloaded \ items
    ELSE downloaded

\* manager.py:158-177  the target file of the item already exists: the path
\* is built from the extension of the URL, the file is written under the
\* extension of the content type
TargetExists(album, i) ==
    i \notin ext_corrected /\ FileExists(disk[<<album, i>>])

\* Where the orchestrator goes on when process_downloads returns.
\* main.py:254-263 (first pass), 353-372 (retry pass), 397-400 (Unsorted)
Continue(ctx) ==
    CASE ctx = "first" ->
           IF args_album THEN rpc' = "single_verify" /\ k' = k
           ELSE rpc' = "album_loop" /\ k' = k + 1
      [] ctx = "retry" -> rpc' = "reverify" /\ k' = k
      [] ctx = "unsorted" -> rpc' = "done" /\ k' = k

\* manager.py:71-109, 133-189  process_downloads up to the submission of the
\* fetch tasks: the write test, the reset for an empty folder and
\* _prepare_download_tasks
ProcessDownloads(album, items, ctx) ==
    \E writable \in BOOLEAN, res \in [items -> Resolutions] :
       LET ids == AfterEmptyDirReset(album, items, downloaded_ids)
           marked == {i \in items : i \in ids}
           resolved == {i \in items \ marked : res[i] = "url"}
           existing == {i \in resolved : TargetExists(album, i)}
           queued == resolved \ existing
           skipped == marked \cup existing
                        \cup {i \in items \ marked : res[i] = "none"}
           failed == {i \in items \ marked : res[i] = "raise"}
       IN /\ \A i \in items : res[i] \in ResolutionsOf(i)
          /\ pd_album' = album
          /\ pd_items' = items
          /\ pd_ctx' = ctx
          /\ results' = [i \in Items |-> "none"]
          /\ IF ~writable
             THEN /\ counts' = [NoCounts EXCEPT
                                  !.failed = Cardinality(items)]
                  /\ tasks' = {}
                  /\ rpc' = "returned"
                  /\ UNCHANGED <<downloaded_ids, url_cache>>
             ELSE /\ downloaded_ids' = ids \cup existing
                  /\ counts' = [downloaded |-> 0,
                                skipped |-> Cardinality(skipped),
                                failed |-> Cardinality(failed)]
                  /\ tasks' = queued
                  /\ url_cache' = url_cache \cup resolved
                  /\ rpc' = IF queued = {} THEN "returned" ELSE "batch"
          /\ UNCHANGED <<progress_doc, disk, k>>

\* main.py:57-68, 100-164, 196-243  the caches are loaded, the albums
\* scanned, the duplicates resolved and the plan made
StartRun ==
    /\ rpc = "start"
    /\ runs' = runs + 1
    /\ downloaded_ids' = progress_doc
    /\ photo_locations' = ScanLocations
    /\ album_summaries' = AlbumSummaries(ScanLocations, progress_doc)
    /\ rpc' = IF album_summaries' = <<>> THEN "done" ELSE "album_loop"
    /\ k' = 1
    /\ UNCHANGED <<albums, listing, videos, ext_corrected, public, args_album,
                   download_video, url_cache, progress_doc, disk, issues,
                   pd_album, pd_items, pd_ctx, tasks, results, counts>>
    /\ verdict' = "none" /\ direct' = {}
    /\ UNCHANGED <<callerVars, selVars, startVars, poolVars>>

\* main.py:250-256  the next album of the plan has items to download
BeginAlbum ==
    /\ rpc = "album_loop" /\ k <= Len(album_summaries)
    /\ album_summaries[k].to_download # {}
    /\ ProcessDownloads(album_summaries[k].album,
                        album_summaries[k].to_download, "first")
    /\ UNCHANGED <<albums, listing, videos, ext_corrected, public, args_album,
                   download_video, photo_locations, album_summaries, issues,
                   runs>>
    /\ verdict' = "none" /\ direct' = {}
    /\ UNCHANGED <<callerVars, selVars, startVars, poolVars>>

\* main.py:264-278  the next album of the plan has nothing to download
SkipAlbum ==
    /\ rpc = "album_loop" /\ k <= Len(album_summaries)
    /\ album_summaries[k].to_download = {}
    /\ Continue("first")
    /\ UNCHANGED <<albums, listing, videos, ext_corrected, public, args_album,
                   download_video, url_cache, progress_doc, disk,
                   downloaded_ids, photo_locations, album_summaries, issues,
                   pd_album, pd_items, pd_ctx, tasks, results, counts, runs>>
    /\ verdict' = "none" /\ direct' = {}
    /\ UNCHANGED <<callerVars, selVars, startVars, poolVars>>

\* A fetch task that would mark its item in the Progress Set itself.
FetchAndMark(i) ==
    /\ rpc = "batch" /\ i \in tasks
    /\ \E o \in FetchOutcomes :
         /\ disk' = [disk EXCEPT ![<<pd_album, i>>] = WrittenFile(o, @)]
         /\ results' = [results EXCEPT ![i] =
                           IF IsErrorOutcome(o) THEN "ERROR" ELSE "path"]
         /\ downloaded_ids' = IF IsErrorOutcome(o) THEN downloaded_ids
                              ELSE downloaded_ids \cup {i}
    /\ tasks' = tasks \ {i}
    /\ UNCHANGED <<albums, listing, videos, ext_corrected, public, args_album,
                   download_video, url_cache, progress_doc,
                   photo_locations, album_summaries, rpc, k, issues, pd_album,
                   pd_items, pd_ctx, counts, runs>>
    /\ verdict' = "none" /\ direct' = {}
    /\ UNCHANGED <<callerVars, selVars, startVars, poolVars>>

\* manager.py:14-62, 196-202  a worker runs the fetch task of item i
Fetch(i) ==
    /\ rpc = "batch" /\ i \in tasks
    /\ \E o \in FetchOutcomes :
         /\ disk' = [disk EXCEPT ![<<pd_album, i>>] = WrittenFile(o, @)]
         /\ results' = [results EXCEPT ![i] =
                           IF IsErrorOutcome(o) THEN "ERROR" ELSE "path"]
    /\ tasks' = tasks \ {i}
    /\ UNCHANGED <<albums, listing, videos, ext_corrected, public, args_album,
                   download_video, url_cache, progress_doc, downloaded_ids,
                   photo_locations, album_summaries, rpc, k, issues, pd_album,
                   pd_items, pd_ctx, counts, runs>>
    /\ verdict' = "none" /\ direct' = {}
    /\ UNCHANGED <<callerVars, selVars, startVars, poolVars>>

\* A check that would be content with a file that exists.
VerifiedIfExists(size) == FileExists(size)

\* manager.py:225  the check of a file reported as downloaded
VerifiedFile(size) == FileExists(size) /\ NonZero(size)

\* A pool driver that would remove a file it rejects without counting the
\* item.
CollectDropsRejected(i) ==
    /\ rpc = "batch" /\ results[i] # "none"
    /\ LET size == disk[<<pd_album, i>>]
       IN IF results[i] = "ERROR"
          THEN /\ counts' = [counts EXCEPT !.failed = @ + 1]
               /\ UNCHANGED <<downloaded_ids, disk>>
          ELSE IF VerifiedFile(size)
          THEN /\ counts' = [counts EXCEPT !.downloaded = @ + 1]
               /\ downloaded_ids' = downloaded_ids \cup {i}
               /\ UNCHANGED disk
          ELSE /\ disk' = [disk EXCEPT ![<<pd_album, i>>] = "absent"]
               /\ UNCHANGED <<counts, downloaded_ids>>
    /\ results' = [results EXCEPT ![i] = "none"]
    /\ UNCHANGED <<albums, listing, videos, ext_corrected, public, args_album,
                   download_video, url_cache, progress_doc, photo_locations,
                   album_summaries, rpc, k, issues, pd_album, pd_items,
                   pd_ctx, tasks, runs>>
    /\ verdict' = IF results[i] = "path"
                        /\ ~VerifiedFile(disk[<<pd_album, i>>])
                  THEN "rejected" ELSE "none"
    /\ direct' = {}
    /\ UNCHANGED <<callerVars, selVars, startVars, poolVars>>

\* manager.py:207-242  the control thread takes the result of the finished
\* task of item i
Collect(i) ==
    /\ rpc = "batch" /\ results[i] # "none"
    /\ LET size == disk[<<pd_album, i>>]
       IN IF results[i] = "ERROR"
          THEN /\ counts' = [counts EXCEPT !.failed = @ + 1]
               /\ UNCHANGED <<downloaded_ids, disk>>
          ELSE IF VerifiedFile(size)
          THEN /\ counts' = [counts EXCEPT !.downloaded = @ + 1]
               /\ downloaded_ids' = downloaded_ids \cup {i}
               /\ UNCHANGED disk
          ELSE /\ counts' = [counts EXCEPT !.failed = @ + 1]
               /\ disk' = [disk EXCEPT ![<<pd_album, i>>] = "absent"]
               /\ UNCHANGED downloaded_ids
    /\ results' = [results EXCEPT ![i] = "none"]
    /\ UNCHANGED <<albums, listing, videos, ext_corrected, public, args_album,
                   download_video, url_cache, progress_doc, photo_locations,
                   album_summaries, rpc, k, issues, pd_album, pd_items,
                   pd_ctx, tasks, runs>>
    /\ verdict' = IF results[i] = "path"
                        /\ ~VerifiedFile(disk[<<pd_album, i>>])
                  THEN "rejected" ELSE "none"
    /\ direct' = {}
    /\ UNCHANGED <<callerVars, selVars, startVars, poolVars>>

\* A pool driver that would stop at the first failure it has counted.
FinishAtFirstFailure ==
    /\ rpc = "batch"
    /\ \/ counts.failed > 0
       \/ tasks = {} /\ \A i \in Items : results[i] = "none"
    /\ progress_doc' = downloaded_ids
    /\ rpc' = "returned"
    /\ UNCHANGED <<albums, listing, videos, ext_corrected, public, args_album,
                   download_video, url_cache, disk, downloaded_ids,
                   photo_locations, album_summaries, k, issues, pd_album,
                   pd_items, pd_ctx, tasks, results, counts, runs>>
    /\ verdict' = "none" /\ direct' = {}
    /\ UNCHANGED <<callerVars, selVars, startVars, poolVars>>

\* manager.py:117-131  every result is in: the progress is saved and
\* process_downloads returns
FinishBatch ==
    /\ rpc = "batch" /\ tasks = {}
    /\ \A i \in Items : results[i] = "none"
    /\ progress_doc' = downloaded_ids
    /\ rpc' = "returned"
    /\ UNCHANGED <<albums, listing, videos, ext_corrected, public, args_album,
                   download_video, url_cache, disk, downloaded_ids,
                   photo_locations, album_summaries, k, issues, pd_album,
                   pd_items, pd_ctx, tasks, results, counts, runs>>
    /\ verdict' = "none" /\ direct' = {}
    /\ UNCHANGED <<callerVars, selVars, startVars, poolVars>>

\* main.py:254-263, 353-362, 397-400  the orchestrator takes the summary
\* process_downloads returned and goes on
TakeSummary ==
    /\ rpc = "returned"
    /\ Continue(pd_ctx)
    /\ pd_album' = "Unsorted" /\ pd_items' = {} /\ pd_ctx' = "first"
    /\ counts' = NoCounts
    /\ UNCHANGED <<albums, listing, videos, ext_corrected, public, args_album,
                   download_video, url_cache, progress_doc, disk,
                   downloaded_ids, photo_locations, album_summaries, issues,
                   tasks, results, runs>>
    /\ verdict' = "none" /\ direct' = {}
    /\ UNCHANGED <<callerVars, selVars, startVars, poolVars>>

\* checker.py:30  the verifier asks for the user id with flickr.test.login(),
\* called on the flickr object
VerifierDirectCalls == {"test.login"}

\* checker.py:23-30, 74-76  the direct calls one verification may make: the
\* album info call of line 25 comes first, and when it raises line 30 is
\* not reached
DirectCallsOf(raises) ==
    IF raises THEN {{}, VerifierDirectCalls} ELSE {VerifierDirectCalls}

\* A verifier that would compare the counts it has when a step raised.
PassesByCountsOnly(album_title, raises) ==
    ~VerificationFails(album_title, photo_locations)

\* checker.py:18-76, 147-191  verify_album_completion: TRUE when it
\* returns True; `raises` tells whether a step of it raised
VerifyPasses(album_title, raises) ==
    raises \/ ~VerificationFails(album_title, photo_locations)

\* checker.py:162-175  the Progress Set verify_album_completion leaves
AfterVerify(album_title, raises) ==
    IF VerifyPasses(album_title, raises) THEN downloaded_ids
    ELSE ResetTracking(album_title, downloaded_ids)

\* checker.py:74-76, 171, 182, 191  how verify_album_completion ended
VerdictOf(album_title, raises) ==
    IF raises THEN "error"
    ELSE IF VerifyPasses(album_title, raises) THEN "pass" ELSE "fail"

\* checker.py:78-105  handle_single_album_verification in a run with an
\* album pattern: the album is verified, a reset is saved and the user asked
SingleVerify ==
    /\ rpc = "single_verify"
    /\ \E raises \in BOOLEAN, yes \in BOOLEAN :
         LET album == album_summaries[k].album
             passed == VerifyPasses(album, raises)
         IN /\ downloaded_ids' = AfterVerify(album, raises)
            /\ progress_doc' = IF passed THEN progress_doc
                               ELSE downloaded_ids'
            /\ issues' = IF ~passed /\ yes THEN Append(issues, album)
                         ELSE issues
            /\ verdict' = VerdictOf(album, raises)
            /\ direct' \in DirectCallsOf(raises)
    /\ rpc' = "album_loop" /\ k' = k + 1
    /\ UNCHANGED <<albums, listing, videos, ext_corrected, public, args_album,
                   download_video, url_cache, disk, photo_locations,
                   album_summaries, pd_album, pd_items, pd_ctx, tasks,
                   results, counts, runs>>
    /\ UNCHANGED <<callerVars, selVars, startVars, poolVars>>

\* main.py:283-297, 314-317  the album loop is over
EndAlbumLoop ==
    /\ rpc = "album_loop" /\ k > Len(album_summaries)
    /\ rpc' = IF ~args_album THEN "verify_all"
              ELSE IF issues # <<>> THEN "retry_loop" ELSE "unsorted"
    /\ k' = 1
    /\ UNCHANGED <<albums, listing, videos, ext_corrected, public, args_album,
                   download_video, url_cache, progress_doc, disk,
                   downloaded_ids, photo_locations, album_summaries, issues,
                   pd_album, pd_items, pd_ctx, tasks, results, counts, runs>>
    /\ verdict' = "none" /\ direct' = {}
    /\ UNCHANGED <<callerVars, selVars, startVars, poolVars>>

\* main.py:297-312  a full run verifies the next album of the plan; a reset
\* is saved and the album noted for a retry
VerifyAll ==
    /\ rpc = "verify_all" /\ k <= Len(album_summaries)
    /\ \E raises \in BOOLEAN :
         LET album == album_summaries[k].album
             passed == VerifyPasses(album, raises)
         IN /\ downloaded_ids' = AfterVerify(album, raises)
            /\ progress_doc' = IF passed THEN progress_doc
                               ELSE downloaded_ids'
            /\ issues' = IF passed THEN issues ELSE Append(issues, album)
            /\ verdict' = VerdictOf(album, raises)
            /\ direct' \in DirectCallsOf(raises)
    /\ k' = k + 1
    /\ UNCHANGED <<albums, listing, videos, ext_corrected, public, args_album,
                   download_video, url_cache, disk, photo_locations,
                   album_summaries, rpc, pd_album, pd_items, pd_ctx, tasks,
                   results, counts, runs>>
    /\ UNCHANGED <<callerVars, selVars, startVars, poolVars>>

\* main.py:314-331  every album is verified: with albums to retry the user
\* is asked once, and 'no' drops them all
EndVerifyAll ==
    /\ rpc = "verify_all" /\ k > Len(album_summaries)
    /\ \E yes \in BOOLEAN :
         /\ issues' = IF yes THEN issues ELSE <<>>
         /\ rpc' = IF issues' # <<>> THEN "retry_loop" ELSE "unsorted"
    /\ k' = 1
    /\ UNCHANGED <<albums, listing, videos, ext_corrected, public, args_album,
                   download_video, url_cache, progress_doc, disk,
                   downloaded_ids, photo_locations, album_summaries, pd_album,
                   pd_items, pd_ctx, tasks, results, counts, runs>>
    /\ verdict' = "none" /\ direct' = {}
    /\ UNCHANGED <<callerVars, selVars, startVars, poolVars>>

\* main.py:341-349  retry_photos: the album's items not in the Progress Set
RetryPhotos(album) == FetchAlbumPhotos(album) \ downloaded_ids

\* main.py:334-355  the retry pass over the next album to retry
RetryAlbum ==
    /\ rpc = "retry_loop" /\ k <= Len(issues)
    /\ RetryPhotos(issues[k]) # {}
    /\ ProcessDownloads(issues[k], RetryPhotos(issues[k]), "retry")
    /\ UNCHANGED <<albums, listing, videos, ext_corrected, public, args_album,
                   download_video, photo_locations, album_summaries, issues,
                   runs>>
    /\ verdict' = "none" /\ direct' = {}
    /\ UNCHANGED <<callerVars, selVars, startVars, poolVars>>

\* main.py:378-379  the album to retry has no item left to retry
RetryNothing ==
    /\ rpc = "retry_loop" /\ k <= Len(issues)
    /\ RetryPhotos(issues[k]) = {}
    /\ k' = k + 1
    /\ UNCHANGED <<albums, listing, videos, ext_corrected, public, args_album,
                   download_video, url_cache, progress_doc, disk,
                   downloaded_ids, photo_locations, album_summaries, rpc,
                   issues, pd_album, pd_items, pd_ctx, tasks, results, counts,
                   runs>>
    /\ verdict' = "none" /\ direct' = {}
    /\ UNCHANGED <<callerVars, selVars, startVars, poolVars>>

\* A re-verification that would send a failed album through another retry
\* pass.
ReverifyUntilPass ==
    /\ rpc = "reverify"
    /\ \E raises \in BOOLEAN :
         /\ downloaded_ids' = AfterVerify(issues[k], raises)
         /\ verdict' = VerdictOf(issues[k], raises)
         /\ direct' \in DirectCallsOf(raises)
         /\ k' = IF VerifyPasses(issues[k], raises) THEN k + 1 ELSE k
    /\ rpc' = "retry_loop"
    /\ UNCHANGED <<albums, listing, videos, ext_corrected, public, args_album,
                   download_video, url_cache, progress_doc, disk,
                   photo_locations, album_summaries, issues, pd_album,
                   pd_items, pd_ctx, tasks, results, counts, runs>>
    /\ UNCHANGED <<callerVars, selVars, startVars, poolVars>>

\* main.py:364-377  the album is verified again after its retry pass
Reverify ==
    /\ rpc = "reverify"
    /\ \E raises \in BOOLEAN :
         /\ downloaded_ids' = AfterVerify(issues[k], raises)
         /\ verdict' = VerdictOf(issues[k], raises)
         /\ direct' \in DirectCallsOf(raises)
    /\ rpc' = "retry_loop" /\ k' = k + 1
    /\ UNCHANGED <<albums, listing, videos, ext_corrected, public, args_album,
                   download_video, url_cache, progress_doc, disk,
                   photo_locations, album_summaries, issues, pd_album,
                   pd_items, pd_ctx, tasks, results, counts, runs>>
    /\ UNCHANGED <<callerVars, selVars, startVars, poolVars>>

\* main.py:334  the retry loop is over
EndRetry ==
    /\ rpc = "retry_loop" /\ k > Len(issues)
    /\ rpc' = "unsorted" /\ k' = 1
    /\ UNCHANGED <<albums, listing, videos, ext_corrected, public, args_album,
                   download_video, url_cache, progress_doc, disk,
                   downloaded_ids, photo_locations, album_summaries, issues,
                   pd_album, pd_items, pd_ctx, tasks, results, counts, runs>>
    /\ verdict' = "none" /\ direct' = {}
    /\ UNCHANGED <<callerVars, selVars, startVars, poolVars>>

\* main.py:392-394, client.py:94-119  fetch_unsorted_photos is handed an
\* empty set of album ids: it returns every item people.getPhotos lists
UnsortedPhotos == public

\* main.py:76-78, 381-402  a full run goes over the items
\* fetch_unsorted_photos returned, if any; a run with an album pattern goes
\* to the summary
Unsorted ==
    /\ rpc = "unsorted"
    /\ IF args_album \/ UnsortedPhotos = {}
       THEN /\ rpc' = "done" /\ k' = k
            /\ UNCHANGED <<url_cache, progress_doc, disk, downloaded_ids,
                           pd_album, pd_items, pd_ctx, tasks, results,
                           counts>>
       ELSE ProcessDownloads("Unsorted", UnsortedPhotos, "unsorted")
    /\ UNCHANGED <<albums, listing, videos, ext_corrected, public, args_album,
                   download_video, photo_locations, album_summaries, issues,
                   runs>>
    /\ verdict' = "none" /\ direct' = {}
    /\ UNCHANGED <<callerVars, selVars, startVars, poolVars>>

\* The program is run again: what it held in memory is gone, the progress
\* document and the files stay.  DOWNLOAD_VIDEO is read from the environment
\* at every start (config.py:20) and may have been changed; the model lets
\* it change where the account holds a video.
Restart ==
    /\ rpc = "done" /\ runs < MaxRuns
    /\ rpc' = "start"
    /\ downloaded_ids' = {}
    /\ photo_locations' = <<>>
    /\ album_summaries' = <<>>
    /\ issues' = <<>>
    /\ k' = 1
    /\ pd_album' = "Unsorted" /\ pd_items' = {} /\ pd_ctx' = "first"
    /\ tasks' = {}
    /\ counts' = NoCounts
    /\ download_video' \in IF videos = {} THEN {download_video} ELSE BOOLEAN
    /\ UNCHANGED <<albums, listing, videos, ext_corrected, public, args_album,
                   url_cache, progress_doc, disk, results, runs>>
    /\ verdict' = "none" /\ direct' = {}
    /\ UNCHANGED <<callerVars, selVars, startVars, poolVars>>

\* A first run on an empty download root with no progress document.
InitRunState ==
    /\ url_cache = {}
    /\ progress_doc = {}
    /\ disk = [p \in Dirs \X Items |-> "absent"]
    /\ downloaded_ids = {}
    /\ photo_locations = <<>>
    /\ album_summaries = <<>>
    /\ rpc = "start"
    /\ k = 1
    /\ issues = <<>>
    /\ pd_album = "Unsorted" /\ pd_items = {} /\ pd_ctx = "first"
    /\ tasks = {}
    /\ results = [i \in Items |-> "none"]
    /\ counts = NoCounts
    /\ runs = 0
    /\ verdict = "none"
    /\ direct = {}

\* The account, the configuration and the arguments of the run.  The items
\* are numbered so that the first album holds item 1; at most MaxSpecial
\* items are a video, have a corrected extension or are public.  Video
\* downloading may be disabled in the accounts that hold a video, and the
\* public items matter to a full run only.
InitWorld ==
    /\ albums \in AlbumOrders
    /\ listing \in [AlbumNames -> SUBSET Items]
    /\ \A a \in AlbumNames : a \notin Range(albums) => listing[a] = {}
    /\ 1 \in listing[albums[1]]
    /\ videos \in SUBSET Items
    /\ ext_corrected \in SUBSET Items
    /\ public \in SUBSET Items
    /\ Cardinality(videos) + Cardinality(ext_corrected)
          + Cardinality(public) <= MaxSpecial
    /\ args_album \in BOOLEAN
    /\ args_album => public = {}
    /\ download_video \in BOOLEAN
    /\ videos = {} => download_video

\* The run part while a specification of the caller is checked.
RunIdle ==
    /\ albums = <<>>
    /\ listing = [a \in AlbumNames |-> {}]
    /\ videos = {} /\ ext_corrected = {} /\ public = {}
    /\ args_album = FALSE /\ download_video = TRUE
    /\ InitRunState

\* The caller part while a specification of the run is checked.
CallerIdle == InitThreads({}, 0) /\ timer = [t \in Threads |-> 0]

\* config.py:35  CACHE_DIR = "./cache"
CACHE_DIR == <<"cache">>
\* config.py:34  DOWNLOAD_DIR: the default, "./flickr_downloads"
DefaultDownloadDir == <<"flickr_downloads">>

\* The start of run() while another specification is checked: it has
\* handed over to the scan, with credentials and the default directories.
StartIdle ==
    /\ config = [API_KEY |-> "key", API_SECRET |-> "secret",
                 MAX_WORKERS |-> 1, API_CALL_DELAY |-> 0,
                 DOWNLOAD_DIR |-> DefaultDownloadDir]
    /\ st_pc = "scan"
    /\ remote = {}
    /\ made = {}
    /\ loaded = {}

\* The pool part while another specification is checked: no task is held
\* by a worker, and no call of download_file is followed.
PoolIdle ==
    /\ fate = [i \in Items |-> "ok"]
    /\ in_worker = {}
    /\ req = [ext |-> ".jpg", media_type |-> "photo", status |-> "ok",
              content_type |-> "image/jpeg"]
    /\ written = "none"

\* The selector part while another specification is checked.
SelIdle ==
    /\ sel_pc = "idle"
    /\ sizes = <<>>
    /\ media_type = "photo"
    /\ url_info = None
    /\ sel_result = <<>>
    /\ asked = {}
    /\ cache_mem = <<>>
    /\ cache_doc = <<>>

NextRun ==
    \/ StartRun
    \/ BeginAlbum
    \/ SkipAlbum
    \/ \E i \in Items : Fetch(i)
    \/ \E i \in Items : Collect(i)
    \/ FinishBatch
    \/ TakeSummary
    \/ SingleVerify
    \/ EndAlbumLoop
    \/ VerifyAll
    \/ EndVerifyAll
    \/ RetryAlbum
    \/ RetryNothing
    \/ Reverify
    \/ EndRetry
    \/ Unsorted
    \/ Restart

InitRun ==
    /\ CallerIdle /\ SelIdle /\ StartIdle /\ PoolIdle
    /\ InitWorld /\ InitRunState
SpecRun == InitRun /\ [][NextRun]_vars

\* An account with the albums "Auto Upload" and "Trip" and one video,
\* which is public: a full run finds it with people.getPhotos, a run with
\* an album pattern does not ask for the public items.
InitVideo ==
    /\ CallerIdle /\ SelIdle /\ StartIdle /\ PoolIdle
    /\ albums = <<"Auto Upload", "Trip">>
    /\ listing \in [AlbumNames -> SUBSET Items]
    /\ listing["Auto Upload 2"] = {}
    /\ 1 \in listing["Auto Upload"]
    /\ videos \in {{i} : i \in Items}
    /\ ext_corrected = {}
    /\ args_album \in BOOLEAN
    /\ public = IF args_album THEN {} ELSE videos
    /\ download_video \in BOOLEAN
    /\ InitRunState

\* Runs of the downloader over an account with a public video.
SpecVideo == InitVideo /\ [][NextRun]_vars

\* manager.py:71  process_downloads is called for an album and a work list
\* of its items, on an empty download root and an empty Progress Set
CallFirst ==
    /\ rpc = "start"
    /\ \E a \in Range(albums) :
         \E items \in SUBSET listing[a] :
            /\ items # {}
            /\ ProcessDownloads(a, items, "first")
    /\ UNCHANGED <<albums, listing, videos, ext_corrected, public, args_album,
                   download_video, photo_locations, album_summaries, issues,
                   runs>>
    /\ verdict' = "none" /\ direct' = {}
    /\ UNCHANGED <<callerVars, selVars, startVars, poolVars>>

\* manager.py:71  process_downloads is called a second time for the same
\* album and work list, on what the first call left
CallAgain ==
    /\ rpc = "returned" /\ pd_ctx = "first"
    /\ ProcessDownloads(pd_album, pd_items, "again")
    /\ UNCHANGED <<albums, listing, videos, ext_corrected, public, args_album,
                   download_video, photo_locations, album_summaries, issues,
                   runs>>
    /\ verdict' = "none" /\ direct' = {}
    /\ UNCHANGED <<callerVars, selVars, startVars, poolVars>>

NextTwice ==
    \/ CallFirst
    \/ \E i \in Items : Fetch(i)
    \/ \E i \in Items : Collect(i)
    \/ FinishBatch
    \/ CallAgain

\* An account with the one album "Trip", which holds every item; at most
\* MaxSpecial items are a video or have a corrected extension.
InitTwice ==
    /\ CallerIdle /\ SelIdle /\ StartIdle /\ PoolIdle
    /\ albums = <<"Trip">>
    /\ listing = [a \in AlbumNames |-> IF a = "Trip" THEN Items ELSE {}]
    /\ videos \in SUBSET Items
    /\ ext_corrected \in SUBSET Items
    /\ Cardinality(videos) + Cardinality(ext_corrected) <= MaxSpecial
    /\ public = {}
    /\ args_album = FALSE
    /\ download_video \in BOOLEAN
    /\ videos = {} => download_video
    /\ InitRunState

\* The scheduler alone, called twice over the same work list.
SpecTwice == InitTwice /\ [][NextTwice]_vars

\* One caller, a remote operation that may fail at every attempt.
InitCaller ==
    /\ InitThreads({1}, MAX_RETRIES)
    /\ RunIdle /\ SelIdle /\ StartIdle /\ PoolIdle
SpecCaller == InitCaller /\ [][NextCaller]_vars
\* The same under the assumption that every invocation of the remote
\* operation, and every sleep, ends.
FairCaller == SpecCaller /\ WF_vars(NextCaller)

\* Several callers, a remote operation that fails at most MaxFailures times.
InitGate ==
    /\ InitThreads(Threads, MaxFailures)
    /\ RunIdle /\ SelIdle /\ StartIdle /\ PoolIdle
SpecGate == InitGate /\ [][NextCaller]_vars

Spec == SpecCaller

(***************************************************************************)
(* Part 3.  Quality resolution: FlickrAPIClient.get_original_url_and_info, *)
(* _select_best_video and _select_best_photo (api/client.py), and what     *)
(* DownloadManager._prepare_download_tasks does with the answer            *)
(***************************************************************************)

\* Bound of the selector model: the longest size list.
MaxSizes == 3

\* The labels of the entries of a size list.
Labels == {"Original", "Medium", "Video Original"}

\* str.lower() of a label
Lower(label) ==
    CASE label = "Original" -> "original"
      [] label = "Medium" -> "medium"
      [] label = "Video Original" -> "video original"

\* 'video' in s, for a lowered label s
ContainsVideo(s) == s \in {"video original"}

\* <<width, height>> and the byte size of an entry.
Dimensions == {<<1, 2>>, <<2, 2>>}
ByteSizes == {1, 2}

\* An entry of the size list; play tells whether '/play/' is in its source.
\* The source (URL) of the entry at place n is written n.
SizeEntries ==
    [play : BOOLEAN, label : Labels, dims : Dimensions, size : ByteSizes]
SizeLists == UNION {[1..n -> SizeEntries] : n \in 0..MaxSizes}

\* An entry filter that would let every entry through.
AnyEntry(s) == TRUE

\* client.py:165  the entries _select_best_video keeps
IsVideoEntry(s) == s.play \/ ContainsVideo(Lower(s.label))

\* client.py:208  the entries _select_best_photo keeps
IsPhotoEntry(s) == ~s.play /\ ~ContainsVideo(Lower(s.label))

\* client.py:166-176, 209-219  the candidate made of the entry at place n
Candidate(n) ==
    [url |-> n,
     resolution |-> sizes[n].dims[1] * sizes[n].dims[2],
     file_size |-> sizes[n].size,
     is_original |-> Lower(sizes[n].label) = "original"]

\* client.py:163-176  video_candidates, in the order of the size list
VideoCandidates ==
    LET Keep(n) == IsVideoEntry(sizes[n])
        places == SelectSeq([n \in 1..Len(sizes) |-> n], Keep)
    IN [m \in 1..Len(places) |-> Candidate(places[m])]

\* client.py:205-219  photo_candidates, in the order of the size list
PhotoCandidates ==
    LET Keep(n) == IsPhotoEntry(sizes[n])
        places == SelectSeq([n \in 1..Len(sizes) |-> n], Keep)
    IN [m \in 1..Len(places) |-> Candidate(places[m])]

\* A sort key that would leave the original flag out.
KeyLessNoOriginal(a, b) ==
    \/ a.resolution < b.resolution
    \/ a.resolution = b.resolution /\ a.file_size < b.file_size

\* client.py:180, 223  the sort key (is_original, resolution, file_size):
\* the order of Python tuples, False below True
KeyLess(a, b) ==
    \/ ~a.is_original /\ b.is_original
    \/ /\ a.is_original = b.is_original
       /\ a.resolution < b.resolution
    \/ /\ a.is_original = b.is_original
       /\ a.resolution = b.resolution
       /\ a.file_size < b.file_size

RECURSIVE InsertFirstAmongEqual(_, _)
\* An insertion that would put x before the members equal to it.
InsertFirstAmongEqual(acc, x) ==
    IF acc = <<>> THEN <<x>>
    ELSE IF ~KeyLess(x, Head(acc)) THEN <<x>> \o acc
    ELSE <<Head(acc)>> \o InsertFirstAmongEqual(Tail(acc), x)

RECURSIVE InsertDesc(_, _)
\* client.py:180, 223  list.sort(reverse=True) is stable: x goes before the
\* first member with a smaller key, after the members equal to it
InsertDesc(acc, x) ==
    IF acc = <<>> THEN <<x>>
    ELSE IF KeyLess(Head(acc), x) THEN <<x>> \o acc
    ELSE <<Head(acc)>> \o InsertDesc(Tail(acc), x)

RECURSIVE SortDesc(_)
\* client.py:180, 223  candidates.sort(key=..., reverse=True)
SortDesc(cands) ==
    IF cands = <<>> THEN <<>>
    ELSE InsertDesc(SortDesc(SubSeq(cands, 1, Len(cands) - 1)),
                    cands[Len(cands)])

\* A selector that would fall back on the first entry of the size list.
SelectBestOrFirst(cands) ==
    IF cands # <<>> THEN SortDesc(cands)[1].url
    ELSE IF sizes # <<>> THEN 1 ELSE None

\* client.py:178-201, 221-244  the URL of the first candidate after the
\* sort, or None when there is no candidate
SelectBest(cands) ==
    IF cands # <<>> THEN SortDesc(cands)[1].url ELSE None

\* The item whose URL is resolved: photo_id.
SelItem == 1

\* The positions in which get_original_url_and_info has returned a value:
\* hit (client.py:126), refused (134), no_sizes (150), no_candidate (153),
\* cached (159)
Returned == {"hit", "refused", "no_sizes", "no_candidate", "cached"}

\* client.py:129-134  photos.getInfo is asked for the media type; it may
\* run out of retries, and a video is refused while videos are disabled
GetInfo ==
    /\ sel_pc = "start"
    /\ \E raises \in BOOLEAN :
         sel_pc' = IF raises THEN "raised"
                   ELSE IF media_type = "video" /\ ~download_video
                        THEN "refused" ELSE "sizes"
    /\ asked' = asked \cup {"photos.getInfo"}
    /\ UNCHANGED <<sizes, media_type, url_info, sel_result, cache_mem,
                   cache_doc>>
    /\ UNCHANGED <<callerVars, runVars, startVars, poolVars>>

\* client.py:157  url_cache[cache_key] = result
Put(cache, i, value) ==
    [j \in DOMAIN cache \cup {i} |-> IF j = i THEN value ELSE cache[j]]

\* client.py:156, 195, 238  the result dict for the entry at place n:
\* selected_info is made of its label, width, height and byte size
ResultOf(n) ==
    [url |-> n,
     media_type |-> media_type,
     selected_info |-> [label |-> sizes[n].label, dims |-> sizes[n].dims,
                        size |-> sizes[n].size]]

\* A resolution that would leave the saving of the cache for later.
GetSizesNoSave ==
    /\ sel_pc = "sizes"
    /\ \E raises \in BOOLEAN :
         LET original_url == IF media_type = "video"
                             THEN SelectBest(VideoCandidates)
                             ELSE SelectBest(PhotoCandidates)
         IN IF raises
            THEN /\ sel_pc' = "no_sizes"
                 /\ UNCHANGED <<url_info, sel_result, url_cache, cache_mem>>
            ELSE IF original_url = None
            THEN /\ sel_pc' = "no_candidate"
                 /\ UNCHANGED <<url_info, sel_result, url_cache, cache_mem>>
            ELSE /\ sel_pc' = "cached"
                 /\ url_info' = original_url
                 /\ sel_result' = <<ResultOf(original_url)>>
                 /\ url_cache' = url_cache \cup {SelItem}
                 /\ cache_mem' = Put(cache_mem, SelItem,
                                     ResultOf(original_url))
    /\ asked' = asked \cup {"photos.getSizes"}
    /\ UNCHANGED <<sizes, media_type, cache_doc>>
    /\ UNCHANGED <<callerVars, startVars, poolVars>>
    /\ UNCHANGED <<albums, listing, videos, ext_corrected, public, args_album,
                   download_video, progress_doc, disk, downloaded_ids,
                   photo_locations, album_summaries, rpc, k, issues, pd_album,
                   pd_items, pd_ctx, tasks, results, counts, runs, verdict,
                   direct>>

\* client.py:139-159  the size list is asked for and the best candidate of
\* the item's kind selected; a URL is cached and the cache saved
GetSizes ==
    /\ sel_pc = "sizes"
    /\ \E raises \in BOOLEAN :
         LET original_url == IF media_type = "video"
                             THEN SelectBest(VideoCandidates)
                             ELSE SelectBest(PhotoCandidates)
         IN IF raises
            THEN /\ sel_pc' = "no_sizes"
                 /\ UNCHANGED <<url_info, sel_result, url_cache,
                                cache_mem, cache_doc>>
            ELSE IF original_url = None
            THEN /\ sel_pc' = "no_candidate"
                 /\ UNCHANGED <<url_info, sel_result, url_cache,
                                cache_mem, cache_doc>>
            ELSE /\ sel_pc' = "cached"
                 /\ url_info' = original_url
                 /\ sel_result' = <<ResultOf(original_url)>>
                 /\ url_cache' = url_cache \cup {SelItem}
                 /\ cache_mem' = Put(cache_mem, SelItem,
                                     ResultOf(original_url))
                 /\ cache_doc' = cache_mem'
    /\ asked' = asked \cup {"photos.getSizes"}
    /\ UNCHANGED <<sizes, media_type>>
    /\ UNCHANGED <<callerVars, startVars, poolVars>>
    /\ UNCHANGED <<albums, listing, videos, ext_corrected, public, args_album,
                   download_video, progress_doc, disk, downloaded_ids,
                   photo_locations, album_summaries, rpc, k, issues, pd_album,
                   pd_items, pd_ctx, tasks, results, counts, runs, verdict,
                   direct>>

\* manager.py:145-187  _prepare_download_tasks takes the answer: None is a
\* skip, an exception a failure, a URL a fetch task unless the file exists
Prepare ==
    /\ sel_pc \in Returned \cup {"raised"}
    /\ sel_pc' = "handled"
    /\ IF sel_pc = "raised"
       THEN /\ counts' = [counts EXCEPT !.failed = @ + 1]
            /\ UNCHANGED <<tasks, downloaded_ids>>
       ELSE IF sel_pc \notin {"cached", "hit"}
       THEN /\ counts' = [counts EXCEPT !.skipped = @ + 1]
            /\ UNCHANGED <<tasks, downloaded_ids>>
       ELSE IF TargetExists(pd_album, SelItem)
       THEN /\ counts' = [counts EXCEPT !.skipped = @ + 1]
            /\ downloaded_ids' = downloaded_ids \cup {SelItem}
            /\ UNCHANGED tasks
       ELSE /\ tasks' = tasks \cup {SelItem}
            /\ UNCHANGED <<counts, downloaded_ids>>
    /\ UNCHANGED <<sizes, media_type, url_info, sel_result, asked,
                   cache_mem, cache_doc>>
    /\ UNCHANGED <<callerVars, startVars, poolVars>>
    /\ UNCHANGED <<albums, listing, videos, ext_corrected, public, args_album,
                   download_video, url_cache, progress_doc, disk,
                   photo_locations, album_summaries, rpc, k, issues, pd_album,
                   pd_items, pd_ctx, results, runs, verdict, direct>>

\* One item of either kind, not in the URL cache, and the size list the
\* remote service answers with; videos may be disabled for a video.
InitSelect ==
    /\ CallerIdle /\ StartIdle /\ PoolIdle
    /\ albums = <<>>
    /\ listing = [a \in AlbumNames |-> {}]
    /\ videos = {} /\ ext_corrected = {} /\ public = {}
    /\ args_album = FALSE
    /\ InitRunState
    /\ sel_pc = "start"
    /\ sizes \in SizeLists
    /\ media_type \in {"photo", "video"}
    /\ download_video \in BOOLEAN
    /\ media_type = "photo" => download_video
    /\ url_info = None
    /\ sel_result = <<>>
    /\ asked = {}
    /\ cache_mem = <<>>
    /\ cache_doc = <<>>

NextSelect ==
    \/ GetInfo
    \/ GetSizes
    \/ Prepare

SpecSelect == InitSelect /\ [][NextSelect]_vars

\* The size lists the remote service answers with while the cache is
\* exercised: no entry, or one.
ShortLists == {<<>>} \cup {<<e>> : e \in SizeEntries}

\* A lookup that would never find the key.
LookupAlwaysMiss ==
    /\ sel_pc = "call"
    /\ sel_pc' = "start"
    /\ UNCHANGED <<sizes, media_type, url_info, sel_result, asked,
                   cache_mem, cache_doc>>
    /\ UNCHANGED <<callerVars, runVars, startVars, poolVars>>

\* client.py:124-126  the cache is looked up first: a stored entry is
\* returned as it is
Lookup ==
    /\ sel_pc = "call"
    /\ IF SelItem \in DOMAIN cache_mem
       THEN /\ sel_pc' = "hit"
            /\ sel_result' = <<cache_mem[SelItem]>>
            /\ url_info' = cache_mem[SelItem].url
       ELSE /\ sel_pc' = "start"
            /\ UNCHANGED <<sel_result, url_info>>
    /\ UNCHANGED <<sizes, media_type, asked, cache_mem, cache_doc>>
    /\ UNCHANGED <<callerVars, runVars, startVars, poolVars>>

\* manager.py:71-103, 139-146  a later pass over a work list that holds
\* the item calls get_original_url_and_info for it again; the remote
\* service may answer with another size list by then
NextPass ==
    /\ sel_pc = "handled"
    /\ sel_pc' = "call"
    /\ sizes' \in ShortLists
    /\ url_info' = None /\ sel_result' = <<>> /\ asked' = {}
    /\ counts' = NoCounts /\ tasks' = {}
    /\ UNCHANGED <<media_type, cache_mem, cache_doc>>
    /\ UNCHANGED <<callerVars, startVars, poolVars>>
    /\ UNCHANGED <<albums, listing, videos, ext_corrected, public, args_album,
                   download_video, url_cache, progress_doc, disk,
                   downloaded_ids, photo_locations, album_summaries, rpc, k,
                   issues, pd_album, pd_items, pd_ctx, results, runs, verdict,
                   direct>>

\* main.py:60, config.py:20  the program is run again: the cache is loaded
\* from its document and DOWNLOAD_VIDEO read from the environment
Rerun ==
    /\ sel_pc = "handled"
    /\ sel_pc' = "call"
    /\ cache_mem' = cache_doc
    /\ url_cache' = DOMAIN cache_doc
    /\ download_video' \in BOOLEAN
    /\ sizes' \in ShortLists
    /\ url_info' = None /\ sel_result' = <<>> /\ asked' = {}
    /\ counts' = NoCounts /\ tasks' = {}
    /\ UNCHANGED <<media_type, cache_doc>>
    /\ UNCHANGED <<callerVars, startVars, poolVars>>
    /\ UNCHANGED <<albums, listing, videos, ext_corrected, public, args_album,
                   progress_doc, disk, downloaded_ids, photo_locations,
                   album_summaries, rpc, k, issues, pd_album, pd_items,
                   pd_ctx, results, runs, verdict, direct>>

\* One item of either kind and an empty URL cache; the scheduler comes to
\* the item pass after pass and run after run.
InitCache ==
    /\ CallerIdle /\ StartIdle /\ PoolIdle
    /\ albums = <<>>
    /\ listing = [a \in AlbumNames |-> {}]
    /\ videos = {} /\ ext_corrected = {} /\ public = {}
    /\ args_album = FALSE
    /\ InitRunState
    /\ sel_pc = "call"
    /\ sizes \in ShortLists
    /\ media_type \in {"photo", "video"}
    /\ download_video \in BOOLEAN
    /\ url_info = None
    /\ sel_result = <<>>
    /\ asked = {}
    /\ cache_mem = <<>>
    /\ cache_doc = <<>>

NextCache ==
    \/ Lookup
    \/ GetInfo
    \/ GetSizes
    \/ Prepare
    \/ NextPass
    \/ Rerun

SpecCache == InitCache /\ [][NextCache]_vars

(***************************************************************************)
(* Claims about a run                                                      *)
(***************************************************************************)

\* C1: over a run, every fetch task enqueued for an item of a scanned album,
\* by the first pass over an album or by a retry pass, targets the directory
\* of the item's canonical album.
C1_CanonicalTarget ==
    (rpc = "batch" /\ pd_ctx \in {"first", "retry"}) =>
        \A i \in tasks : pd_album = PrimaryAlbum(photo_locations[i])

\* A step that adds ids to the Progress Set (loading it at the start apart)
\* finds a file of more than 0 bytes for each of them.
AddedWithFile ==
    rpc # "start" =>
        \A i \in downloaded_ids' \ downloaded_ids :
            NonZero(disk'[<<pd_album', i>>])

\* C2: an id is added to the Progress Set, after a fetch or by the
\* file-already-exists skip, only at a moment when the item's file exists
\* with a size above zero.
C2_AddedOnlyWithFile == [][AddedWithFile]_vars

\* What an errored fetch task leaves at the path: between passes a file of 0
\* bytes or a truncated file is there only because the fetch failed.
LeftByFailedFetch(size) == size \in {"empty", "partial"}

\* A step that starts a pass adds no item to the Progress Set whose file is
\* what a failed fetch left.
NotMarkedAfterError ==
    rpc \in {"album_loop", "retry_loop", "unsorted"} =>
        \A i \in downloaded_ids' \ downloaded_ids :
            ~LeftByFailedFetch(disk[<<pd_album', i>>])

\* C3: an item whose fetch task reported an error is not in the Progress Set
\* when the pass ends, and the next pass over its album enqueues a fetch for
\* it: the pass does not skip it as a file that exists and mark it downloaded.
C3_RefetchedAfterError == [][NotMarkedAfterError]_vars

\* C4: between two albums of the album loop, whatever path the processing of
\* the earlier album took, the persisted progress document equals the
\* Progress Set in memory.
C4_SavedBetweenAlbums ==
    rpc = "album_loop" => progress_doc = downloaded_ids

\* The album a step that calls verify_album_completion verifies.
VerifiedAlbum ==
    IF rpc = "reverify" THEN issues[k] ELSE album_summaries[k].album

\* A step in which the verifier returns fail has found expected > actual and
\* leaves the Progress Set without the ids of the album's remote listing.
FailRemovesListing ==
    verdict' = "fail" =>
        /\ VerificationFails(VerifiedAlbum, photo_locations)
        /\ downloaded_ids' = downloaded_ids \ listing[VerifiedAlbum]

\* C5 (as stated): when the verifier finds expected > actual it returns
\* fail, and the Progress Set afterwards is the one before minus exactly the
\* ids of the album's remote listing.
C5_ResetRemovesListing == [][FailRemovesListing]_vars

\* The same with the ids fetch_album_photos returns; a pass changes nothing.
FailRemovesFetched ==
    /\ verdict' = "fail" =>
          /\ VerificationFails(VerifiedAlbum, photo_locations)
          /\ downloaded_ids' =
                 downloaded_ids \ FetchAlbumPhotos(VerifiedAlbum)
    /\ verdict' = "pass" => downloaded_ids' = downloaded_ids

\* C5 (amended): when the verifier finds expected > actual it returns fail,
\* and the Progress Set afterwards is the one before minus exactly the ids
\* fetch_album_photos returns for the album, which leaves out the album's
\* videos while video downloading is disabled; every other id is still
\* present, and a verification that passes changes nothing.
C5_ResetRemovesFetched == [][FailRemovesFetched]_vars
\* A full run's verification of an album has just failed, and the Progress
\* Set still holds a video of that album.
C5_Witness ==
    /\ verdict = "fail" /\ rpc = "verify_all"
    /\ \E i \in videos \cap downloaded_ids :
          i \in listing[album_summaries[k - 1].album]

\* C6: for every album and the containment map of the scan, the number the
\* verifier subtracts from the album's expected count is the number of the
\* album's items whose canonical album, by the resolver, is another album,
\* and both rules choose the same album for every item in several albums.
C6_SameCanonicalAlbum ==
    rpc # "start" =>
        /\ \A a \in Range(albums) :
              CrossAlbumDuplicates(photo_locations, a) =
                  Cardinality({i \in DOMAIN photo_locations :
                      /\ a \in Range(photo_locations[i])
                      /\ PrimaryAlbum(photo_locations[i]) # a})
        /\ \A i \in DOMAIN photo_locations :
              Len(photo_locations[i]) > 1 =>
                  VerifierPrimary(photo_locations[i])
                      = PrimaryAlbum(photo_locations[i])

(***************************************************************************)
(* Claims about call_with_retries                                          *)
(***************************************************************************)

\* The positions in which call_with_retries has ended.
Final == {"returned", "raised_exceeded", "propagated"}

\* C7: every invocation of the remote operation starts at least
\* API_CALL_DELAY after the previous invocation of a remote operation, by
\* any thread, retries after a failed attempt included.
C7_MinimumInterval == last_gap = None \/ last_gap >= API_CALL_DELAY

\* At most MAX_RETRIES invocations; a success is returned as it is by the
\* attempt that got it; MAX_RETRIES retryable failures end in the 'exceeded
\* retries' failure.
C8_Safe ==
    \A t \in active :
        /\ calls[t] <= MAX_RETRIES
        /\ calls[t] <= attempt[t]
        /\ pc[t] = "returned" =>
              /\ outcome[t] = "ok"
              /\ result[t] \in Results /\ result[t] = func_value[t]
              /\ calls[t] = retryable[t] + 1
        /\ pc[t] # "returned" => result[t] = NoResult
        /\ pc[t] = "raised_exceeded" =>
              calls[t] = MAX_RETRIES /\ retryable[t] = MAX_RETRIES
        /\ (retryable[t] = MAX_RETRIES /\ pc[t] \in Final) =>
              pc[t] = "raised_exceeded"

\* C8: if every invocation of the remote operation ends, call_with_retries
\* ends, having invoked the operation at most MAX_RETRIES times; a success
\* is returned as it is, with no further attempt; MAX_RETRIES retryable
\* failures end in the 'exceeded retries' failure, raised after the
\* MAX_RETRIES-th attempt.
C8_Terminates ==
    /\ []C8_Safe
    /\ <>(\A t \in active : pc[t] \in Final)
\* Every attempt has failed and the terminal failure is raised.
C8_Witness ==
    \E t \in active : pc[t] = "raised_exceeded" /\ calls[t] = MAX_RETRIES

\* C9: after every retryable failure, network/timeout as well as
\* rate-limit/server-busy, call_with_retries sleeps for the backoff before
\* the next attempt: whenever it is not just handling a failure, it has slept
\* once per retryable failure, so a call that succeeds after two retryable
\* failures has slept twice.
C9_SleepAfterEveryFailure ==
    \A t \in active :
        /\ pc[t] \in {"acquire", "gate", "in_call", "returned"} =>
              sleeps[t] = retryable[t]
        /\ (pc[t] = "returned" /\ retryable[t] = 2) =>
              sleeps[t] >= 2 /\ calls[t] <= MAX_RETRIES

\* The failures that are neither a 429, a 503 nor a network/timeout error.
NonTransient == {"flickr_error", "other"}

\* C10 (as stated): a failure that is not a rate limit (429), a busy server
\* (503) or a network/timeout error is propagated to the caller from the
\* attempt it occurs in, with no backoff sleep and no further attempt.
C10_NonTransientPropagates ==
    \A t \in active :
        (outcome[t] \in NonTransient /\ pc[t] # "in_call") =>
            pc[t] = "propagated" /\ timer[t] = 0

\* C10 (amended): an exception of the remote operation that is neither a
\* FlickrError nor a network/timeout error is propagated from the attempt it
\* occurs in, with no backoff sleep and no further attempt; a FlickrError of
\* any other code is retried after a backoff sleep like a 429 or a 503.
C10_OtherPropagates ==
    \A t \in active :
        /\ (outcome[t] = "other" /\ pc[t] # "in_call") =>
              /\ pc[t] = "propagated" /\ timer[t] = 0
              /\ sleeps[t] + 1 <= calls[t]
        /\ (outcome[t] = "flickr_error" /\ pc[t] # "in_call") =>
              /\ pc[t] \in {"backoff_sleep", "acquire", "gate",
                            "raised_exceeded"}
              /\ sleeps[t] >= 1
\* The first attempt raised such an exception and it left call_with_retries.
C10_Witness ==
    \E t \in active :
        /\ pc[t] = "propagated" /\ outcome[t] = "other"
        /\ calls[t] = 1 /\ sleeps[t] = 0

\* The positions of the sequence 'check the elapsed time, gate sleep, perform
\* the call, record the timestamp' (client.py:28-40).
InGate == {"gate", "in_call"}

\* C11: with any number of threads in call_with_retries, at most one thread
\* executes a remote operation at any moment, and while one caller is
\* between its check of the elapsed time and the recording of its timestamp
\* it holds the lock and no other caller is in that sequence.
C11_OneAtATime ==
    /\ Cardinality(in_func) <= 1
    /\ \A t \in in_func : pc[t] = "in_call"
    /\ \A t \in active : pc[t] \in InGate => api_lock = t
    /\ \A t, u \in active :
          (t # u /\ pc[t] \in InGate) => pc[u] \notin InGate
\* One thread executes the remote operation while another, which has
\* entered call_with_retries, waits for the lock.
C11_Witness ==
    \E t, u \in active :
        /\ t # u /\ t \in in_func
        /\ pc[u] = "acquire" /\ attempt[u] >= 1

(***************************************************************************)
(* Claims about the remote calls of a run and about the Ownership Map      *)
(***************************************************************************)

\* C12: after authentication every remote API call of a run, by the
\* orchestrator, the scheduler and the verifier, is issued through
\* call_with_retries: no step invokes a remote method directly.
C12_AllThroughCaller == direct = {}

\* The albums of the scan whose remote listing holds item i.
Holders(i) == {a \in Range(albums) : i \in listing[a]}

\* The albums of the scan for which fetch_album_photos returns item i.
FetchedHolders(i) == {a \in Range(albums) : i \in FetchAlbumPhotos(a)}

\* C13 (as stated): after the scan the Ownership Map holds every item id of
\* the remote listing of at least one scanned album, each mapped to one
\* album whose listing holds the item, and an item of exactly one album's
\* listing is mapped to that album.
C13_MapCoversListings ==
    rpc # "start" =>
        LET plan == PhotosToDownload(photo_locations)
        IN /\ DOMAIN plan = {i \in Items : Holders(i) # {}}
           /\ \A i \in DOMAIN plan :
                 /\ plan[i] \in Holders(i)
                 /\ \A a \in Range(albums) :
                       Holders(i) = {a} => plan[i] = a

\* C13 (amended): after the scan the Ownership Map holds every item id that
\* fetch_album_photos returns for at least one scanned album (the videos
\* are left out of a listing while video downloading is disabled) and no
\* other id; each is mapped to one album whose listing holds the item, and
\* an item of exactly one album is mapped to that album.
C13_MapCoversFetched ==
    rpc # "start" =>
        LET plan == PhotosToDownload(photo_locations)
        IN /\ DOMAIN plan = {i \in Items : FetchedHolders(i) # {}}
           /\ \A i \in DOMAIN plan :
                 /\ plan[i] \in FetchedHolders(i)
                 /\ \A a \in Range(albums) :
                       FetchedHolders(i) = {a} => plan[i] = a
\* A scan with video downloading disabled has mapped the items of the
\* second album and left out a video an album holds.
C13_Witness ==
    /\ rpc = "album_loop" /\ ~download_video
    /\ \E i \in DOMAIN photo_locations : photo_locations[i] = <<albums[2]>>
    /\ \E v \in videos : Holders(v) # {} /\ v \notin DOMAIN photo_locations

\* The place of album a in the scan order.
ScanIndex(a) == CHOOSE n \in DOMAIN albums : albums[n] = a

\* C14: for every item held by more than one album, the canonical album is
\* the first album in scan order, among those holding it, whose name is not
\* "Auto Upload", and the first one holding it if all are named so; the
\* auto-upload album is never canonical when another album holds the item.
C14_FirstNonAuto ==
    rpc # "start" =>
        \A i \in DOMAIN photo_locations :
            Len(photo_locations[i]) > 1 =>
                LET canonical == PhotosToDownload(photo_locations)[i]
                    others == FetchedHolders(i) \ {"Auto Upload"}
                    choice == IF others # {} THEN others
                              ELSE FetchedHolders(i)
                IN /\ canonical \in choice
                   /\ \A a \in choice :
                         ScanIndex(canonical) <= ScanIndex(a)
\* The scan found an item in "Auto Upload" and, after it, in an album whose
\* name only starts like that.
C14_Witness ==
    /\ rpc # "start"
    /\ \E i \in DOMAIN photo_locations :
          photo_locations[i] = <<"Auto Upload", "Auto Upload 2">>

(***************************************************************************)
(* Claims about quality resolution                                         *)
(***************************************************************************)

\* The places of the size list whose entries pass the filter of the item's
\* kind.
KeptPlaces ==
    {n \in DOMAIN sizes :
        IF media_type = "video" THEN IsVideoEntry(sizes[n])
        ELSE IsPhotoEntry(sizes[n])}

\* The three ranking keys of the entry at place n.
Original(n) == sizes[n].label = "Original"
Pixels(n) == sizes[n].dims[1] * sizes[n].dims[2]
Bytes(n) == sizes[n].size

\* The entry at place m is not below the entry at place n in the order by
\* original flag, then resolution, then byte size.
NotBelow(m, n) ==
    IF Original(m) # Original(n) THEN Original(m)
    ELSE IF Pixels(m) # Pixels(n) THEN Pixels(m) > Pixels(n)
    ELSE Bytes(m) >= Bytes(n)

\* C15: for every non-empty kind-filtered candidate list the selector
\* returns the URL of a candidate that is maximal in the lexicographic order
\* (is_original, width * height, byte size): an 'Original' candidate beats
\* every other one, a higher resolution wins among equal flags, a larger
\* byte size among equal flags and resolutions.
C15_BestIsMaximal ==
    (sel_pc \in {"no_candidate", "cached"} /\ KeptPlaces # {}) =>
        /\ sel_pc = "cached"
        /\ url_info \in KeptPlaces
        /\ \A n \in KeptPlaces : NotBelow(url_info, n)
\* The selected candidate is an 'Original' of a lower resolution than
\* another candidate of the list.
C15_Witness ==
    /\ sel_pc = "cached"
    /\ \E n \in KeptPlaces :
          /\ Original(url_info) /\ ~Original(n)
          /\ Pixels(url_info) < Pixels(n)

\* The entries at places m and n are equal on the three ranking keys.
SameRank(m, n) ==
    /\ Original(m) = Original(n)
    /\ Pixels(m) = Pixels(n)
    /\ Bytes(m) = Bytes(n)

\* C16: among kind-filtered candidates equal on is_original, resolution and
\* byte size, the selector returns the one that comes first in the order of
\* the remote service's list.
C16_FirstAmongEqual ==
    sel_pc = "cached" =>
        \A n \in KeptPlaces : SameRank(url_info, n) => url_info <= n
\* A later candidate of the list is equal to the selected one on the three
\* keys.
C16_Witness ==
    /\ sel_pc = "cached"
    /\ \E n \in KeptPlaces : n > url_info /\ SameRank(url_info, n)

\* The URL or the label of the entry at place n indicates a played/video
\* stream.
LooksLikeVideo(n) == sizes[n].play \/ sizes[n].label = "Video Original"

\* C17: the filter by kind comes before the ranking: the URL selected for a
\* video belongs to an entry whose URL or label indicates a video stream,
\* the URL selected for a photo never does, whatever the rank of the
\* entries of the other kind, and every entry passes exactly one of the two
\* filters.
C17_KindBeforeRank ==
    /\ sel_pc = "cached" =>
          (media_type = "video") = LooksLikeVideo(url_info)
    /\ \A n \in DOMAIN sizes :
          IsVideoEntry(sizes[n]) = ~IsPhotoEntry(sizes[n])
\* The URL selected for a photo is ranked below an entry of the list that
\* indicates a video stream.
C17_Witness ==
    /\ sel_pc = "cached" /\ media_type = "photo"
    /\ \E n \in DOMAIN sizes :
          LooksLikeVideo(n) /\ ~NotBelow(url_info, n)

\* With no candidate of the item's kind, get_original_url_and_info returns
\* None and has written no cache entry.
NoCandidateIsNone ==
    (sel_pc \in {"no_candidate", "cached"} /\ KeptPlaces = {}) =>
        /\ sel_pc = "no_candidate"
        /\ url_info = None
        /\ SelItem \notin url_cache
        /\ tasks = {}

\* The size list leaves no candidate: no exception reaches the scheduler,
\* which counts the item as skipped, enqueues nothing and marks nothing.
NoCandidateSkipped ==
    /\ (sel_pc = "sizes" /\ KeptPlaces = {}) =>
          sel_pc' \in {"sizes", "no_sizes", "no_candidate"}
    /\ sel_pc = "no_candidate" =>
          \/ UNCHANGED vars
          \/ /\ sel_pc' = "handled"
             /\ counts' = [counts EXCEPT !.skipped = @ + 1]
             /\ tasks' = {}
             /\ url_cache' = url_cache
             /\ downloaded_ids' = downloaded_ids

\* C18: when the filter by kind leaves no candidate, quality resolution
\* answers 'no candidate' as a value, no exception reaching the scheduler;
\* no URL cache entry is written for the item, no fetch is enqueued and the
\* item is counted as skipped.
C18_NoCandidateSkipped ==
    /\ []NoCandidateIsNone
    /\ [][NoCandidateSkipped]_vars
\* A size list that is not empty has left no candidate for the item.
C18_Witness ==
    /\ sel_pc = "no_candidate" /\ sizes # <<>>
    /\ url_info = None /\ SelItem \notin url_cache

(***************************************************************************)
(* Claims about the download scheduler                                     *)
(***************************************************************************)

\* What a first call in which every item of the work list ended as a valid
\* file has left: nothing failed and each item has its whole file.
AllEndedValid ==
    /\ counts.failed = 0
    /\ \A i \in pd_items : disk[<<pd_album, i>>] = "full"

\* A second call of process_downloads on such a state, its write test
\* passing, enqueues nothing, reports 0 downloaded and N skipped, and
\* leaves the files and the Progress Set as they are.
SecondCallIdle ==
    (/\ rpc = "returned" /\ pd_ctx = "first" /\ pd_ctx' = "again"
     /\ AllEndedValid
     /\ counts'.failed = 0) =>
        /\ tasks' = {} /\ rpc' = "returned"
        /\ counts' = [downloaded |-> 0,
                      skipped |-> Cardinality(pd_items),
                      failed |-> 0]
        /\ disk' = disk
        /\ downloaded_ids' = downloaded_ids

Accounted == counts.downloaded + counts.skipped + counts.failed

\* The fetch tasks submitted and not yet handled by the pool driver.
Pending == tasks \cup {i \in Items : results[i] # "none"}

\* Whatever happened to the other items, every item of the work list is
\* accounted for or still has its task; a finished task has returned a path
\* or an 'ERROR' string; when process_downloads returns none is left.
EveryItemHandled ==
    /\ rpc \in {"batch", "returned"} =>
          /\ Accounted + Cardinality(Pending) = Cardinality(pd_items)
          /\ Pending \subseteq pd_items
    /\ rpc = "returned" => Accounted = Cardinality(pd_items)
    /\ \A i \in Items : results[i] \in {"none", "path", "ERROR"}

\* With failed items or without, the orchestrator goes on to the next
\* album of its loop when process_downloads has returned.
GoesOnAfterFailures ==
    (rpc = "returned" /\ rpc' # "returned") =>
        CASE pd_ctx = "first" /\ ~args_album ->
                 rpc' = "album_loop" /\ k' = k + 1
          [] pd_ctx = "first" /\ args_album ->
                 rpc' = "single_verify" /\ k' = k
          [] pd_ctx = "retry" -> rpc' = "reverify" /\ k' = k
          [] OTHER -> rpc' = "done"

\* C20: an error confined to one item (quality resolution raising, a fetch
\* task failing, the check of the downloaded file failing) never keeps
\* another item of the work list from being resolved and fetched, nor a
\* later album from being processed: a fetch task ends with a path or an
\* 'ERROR' string and the pool driver handles the result of every task.
C20_PartialFailureContinues ==
    /\ []EveryItemHandled
    /\ [][GoesOnAfterFailures]_vars
\* process_downloads has returned with one item failed and another one
\* downloaded.
C20_Witness ==
    /\ rpc = "returned"
    /\ counts.failed >= 1 /\ counts.downloaded >= 1

\* The items whose fetch task returned a path and whose result the pool
\* driver takes in this step.
TakenAsDownloaded ==
    {i \in Items : rpc = "batch" /\ results[i] = "path"
                     /\ results'[i] = "none"}

\* The pool driver takes the result of a task that returned a path while
\* the file is missing or has no bytes: one more failed, not one more
\* downloaded, the id is not in the Progress Set and no file is left.
UnverifiedCountsFailed ==
    \A i \in TakenAsDownloaded :
        disk[<<pd_album, i>>] \in {"absent", "empty"} =>
            /\ counts'.failed = counts.failed + 1
            /\ counts'.downloaded = counts.downloaded
            /\ i \notin downloaded_ids'
            /\ downloaded_ids' = downloaded_ids
            /\ disk'[<<pd_album, i>>] = "absent"

Verdicts == {"pass", "fail", "error"}

\* The step calls verify_album_completion with expected <= actual for the
\* album: it returns True and the Progress Set stays as it was.
NoShortagePasses ==
    (/\ verdict' \in Verdicts
     /\ ExpectedLocalCount(VerifiedAlbum, photo_locations)
           <= CountLocalFiles(VerifiedAlbum)) =>
        /\ verdict' # "fail"
        /\ downloaded_ids' = downloaded_ids

\* C22: when the verifier finds expected = actual or expected < actual for
\* an album, it returns pass and the Progress Set is exactly what it was
\* before the call.
C22_NoShortagePasses == [][NoShortagePasses]_vars
\* A full run's verification has just passed for an album that holds more
\* files than expected, with ids in the Progress Set.
C22_Witness ==
    /\ verdict = "pass" /\ rpc = "verify_all" /\ k > 1
    /\ downloaded_ids # {}
    /\ ExpectedLocalCount(album_summaries[k - 1].album, photo_locations)
          < CountLocalFiles(album_summaries[k - 1].album)

\* A step that calls verify_album_completion, however it ends, leaves
\* every file as it is and adds no id to the Progress Set.
VerifierOnlyForgets ==
    verdict' \in Verdicts =>
        /\ disk' = disk
        /\ downloaded_ids' \subseteq downloaded_ids

\* C23: in every outcome (pass, fail, exception) verify_album_completion
\* leaves the set of local files unchanged and never adds an id to the
\* Progress Set: the Progress Set after the call is a subset of the
\* Progress Set before it.
C23_VerifierOnlyForgets == [][VerifierOnlyForgets]_vars
\* A verification has just failed for an album whose folder holds a file
\* of an item that is not in the Progress Set.
C23_Witness ==
    /\ verdict = "fail" /\ rpc = "verify_all" /\ k > 1
    /\ \E i \in Items \ downloaded_ids :
          NonZero(disk[<<album_summaries[k - 1].album, i>>])

\* A step in which a step of verify_album_completion raised: the caller is
\* answered True, so the Progress Set and its document stay as they were
\* and the album is not added to the albums to retry.
ErrorAssumesPass ==
    verdict' = "error" =>
        /\ downloaded_ids' = downloaded_ids
        /\ progress_doc' = progress_doc
        /\ issues' = issues

\* C24: if any step of verifying an album raises (a metadata or listing
\* call runs out of retries), verify_album_completion returns pass, the
\* Progress Set is unchanged and the album is not scheduled for retry.
C24_ErrorAssumesPass == [][ErrorAssumesPass]_vars
\* The verification of an album that lacks a file has just raised: the
\* ids of the album are still in the Progress Set and no album is to retry.
C24_Witness ==
    /\ verdict = "error" /\ rpc = "verify_all" /\ k > 1
    /\ VerificationFails(album_summaries[k - 1].album, photo_locations)
    /\ FetchAlbumPhotos(album_summaries[k - 1].album) \cap downloaded_ids
          # {}
    /\ issues = <<>>

(***************************************************************************)
(* Claims about the URL cache                                              *)
(***************************************************************************)

\* A step leaves every entry of the cache, in memory and in its document,
\* with the value it has; a call answered from the cache returns the stored
\* value.
EntriesKept ==
    /\ \A i \in DOMAIN cache_mem :
          i \in DOMAIN cache_mem' /\ cache_mem'[i] = cache_mem[i]
    /\ \A i \in DOMAIN cache_doc :
          i \in DOMAIN cache_doc' /\ cache_doc'[i] = cache_doc[i]
    /\ (sel_pc = "call" /\ SelItem \in DOMAIN cache_mem) =>
          sel_pc' \in {"call", "hit"}
    /\ (sel_pc # "hit" /\ sel_pc' = "hit") =>
          sel_result' = <<cache_mem[SelItem]>>

\* A call answered from the cache has asked the remote service nothing.
HitAsksNothing == sel_pc = "hit" => asked = {}

\* C25: the URL cache is write-once: once an entry for the key
\* '<item-id>_info' exists, no operation changes its value or removes it,
\* within a run or across runs, and a cache hit returns the stored value
\* without issuing any remote call.
C25_WriteOnce ==
    /\ []HitAsksNothing
    /\ [][EntriesKept]_vars
\* A call is answered from the cache with a value made from another size
\* list than the one the remote service would answer with now.
C25_Witness ==
    /\ sel_pc = "hit" /\ asked = {}
    /\ sizes # <<>>
    /\ sel_result = <<cache_mem[SelItem]>>
    /\ cache_mem[SelItem].selected_info.label # sizes[1].label

\* The positions in which the resolution has ended without a URL.
WithoutUrl == {"raised", "refused", "no_sizes", "no_candidate"}

\* When a resolution has returned a URL on a cache miss, the document holds
\* what the cache in memory holds, the new entry included; between two
\* items the two are equal.
SavedAtOnce ==
    /\ sel_pc = "cached" =>
          /\ SelItem \in DOMAIN cache_doc
          /\ <<cache_doc[SelItem]>> = sel_result
    /\ sel_pc \in {"cached", "handled", "call"} => cache_doc = cache_mem

\* A resolution that ends without a URL writes nothing.
NothingWrittenWithoutUrl ==
    (sel_pc \notin WithoutUrl /\ sel_pc' \in WithoutUrl) =>
        /\ cache_mem' = cache_mem
        /\ cache_doc' = cache_doc
        /\ url_cache' = url_cache

\* C26: after each successful quality resolution on a cache miss, and
\* before the next item is processed, the persisted URL cache document
\* equals the URL cache in memory; a resolution that yields no candidate or
\* fails writes nothing to the cache.
C26_SavedAtOnce ==
    /\ []SavedAtOnce
    /\ [][NothingWrittenWithoutUrl]_vars
\* The resolution of a video has just returned a URL on a cache miss and
\* the document holds the entry.
C26_Witness ==
    /\ sel_pc = "cached" /\ media_type = "video"
    /\ asked = {"photos.getInfo", "photos.getSizes"}
    /\ SelItem \in DOMAIN cache_doc /\ cache_doc = cache_mem

(***************************************************************************)
(* Claims about the configuration of a run                                 *)
(***************************************************************************)

\* C27: when video downloading is disabled, quality resolution of a video
\* item signals 'no candidate', the item is counted as skipped, and no
\* fetch task is ever enqueued for a video item in any scheduler pass
\* (album pass, retry pass or Unsorted pass), whatever the URL cache holds.
C27_NoVideoFetch ==
    (rpc = "batch" /\ ~download_video) => tasks \cap videos = {}

\* The albums the scan has put into the containment map.
ScannedAlbums ==
    UNION {Range(photo_locations[i]) : i \in DOMAIN photo_locations}

\* C28: an album whose name is the hard-coded always-excluded name (in any
\* variant should_skip_album accepts) or is in the configured exclusion
\* list, whatever that list is, is never scanned into the download plan and
\* never handed to the scheduler in a run of the downloader.
C28_ExcludedNeverScanned ==
    \A skip_albums \in SUBSET AlbumNames :
        \A a \in AlbumNames :
            ShouldSkipAlbum(a, skip_albums) =>
                /\ a \notin ScannedAlbums
                /\ \A n \in DOMAIN album_summaries :
                      album_summaries[n].album # a
                /\ rpc = "batch" => pd_album # a

(***************************************************************************)
(* Claims about the Progress Set                                           *)
(***************************************************************************)

\* A step of a run that takes an id out of the Progress Set in memory is a
\* failed verification (the end of the program, which drops the set, apart).
RemovedOnlyByVerifier ==
    (rpc # "done" /\ ~(downloaded_ids \subseteq downloaded_ids')) =>
        verdict' = "fail"

\* C30: the download scheduler only ever adds ids to the Progress Set: no
\* call of process_downloads removes an id; ids are removed only by the
\* completion verifier, when the verification of an album fails.
C30_RemovedOnlyByVerifier == [][RemovedOnlyByVerifier]_vars

\* ------------------------------------------------------------------
\* Part 4: the start of a run (main.py run, lines 27-65)
\* ------------------------------------------------------------------

\* A credential as os.getenv gives it (config.py:16-17): the Python value
\* None when the variable is not set, written "None" here, the empty
\* string, or a key.
Credentials == {"None", "", "key"}

\* Python's truth value of a credential, as `not self.API_KEY` reads it.
Truthy(value) == value \notin {"None", ""}

\* The other truth test a validation could make: set at all.
IsSet(value) == value # "None"

\* config.py:60  the test of one credential in validate().
HasCredential(value) == Truthy(value)

\* config.py:58-67  validate() raises ValueError unless this holds.
ConfigValid(c) ==
    /\ HasCredential(c.API_KEY) /\ HasCredential(c.API_SECRET)
    /\ ~(c.MAX_WORKERS < 1)
    /\ ~(c.API_CALL_DELAY < 0)

\* config.py:46-47  log_file = os.path.join(CACHE_DIR, ...)
LogFile == Append(CACHE_DIR, "flickr_downloader.log")

\* path lies strictly below the directory root.
Under(path, root) ==
    /\ Len(path) > Len(root)
    /\ SubSeq(path, 1, Len(root)) = root

\* config.py:34  DOWNLOAD_DIR is taken from the environment: the default,
\* or the working directory itself ("."), which contains ./cache.
DownloadDirs == {DefaultDownloadDir, <<>>}

\* The state when run() is entered: any configuration, nothing done yet.
InitStart ==
    /\ CallerIdle /\ RunIdle /\ SelIdle /\ PoolIdle
    /\ config \in [API_KEY : Credentials, API_SECRET : Credentials,
                   MAX_WORKERS : {0, 1}, API_CALL_DELAY : {-1, 0},
                   DOWNLOAD_DIR : DownloadDirs]
    /\ st_pc = "logging"
    /\ remote = {}
    /\ made = {}
    /\ loaded = {}

\* main.py:33, ui.py:12-36  setup_logging creates the cache directory and
\* opens the log file for appending; main.py:35-40 write to it.
SetupLogging ==
    /\ st_pc = "logging"
    /\ made' = made \cup {CACHE_DIR, LogFile}
    /\ st_pc' = "validate"
    /\ UNCHANGED <<config, remote, loaded>>
    /\ UNCHANGED <<callerVars, runVars, selVars, poolVars>>

\* main.py:43-47  config.validate(); a ValueError is logged and run()
\* returns.
Validate ==
    /\ st_pc = "validate"
    /\ st_pc' = IF ConfigValid(config) THEN "init_api" ELSE "aborted"
    /\ UNCHANGED <<config, remote, made, loaded>>
    /\ UNCHANGED <<callerVars, runVars, selVars, poolVars>>

\* main.py:53, 85-98  _initialize_flickr_api: without a valid token the
\* OAuth exchange runs; then test.login goes through call_with_retries,
\* whose RuntimeError nothing catches.
InitializeFlickrApi ==
    /\ st_pc = "init_api"
    /\ \E token_valid \in BOOLEAN, login_raises \in BOOLEAN :
        /\ remote' = remote
                \cup (IF token_valid THEN {}
                      ELSE {"get_request_token", "get_access_token"})
                \cup {"test.login"}
        /\ st_pc' = IF login_raises THEN "crashed" ELSE "makedirs"
    /\ UNCHANGED <<config, made, loaded>>
    /\ UNCHANGED <<callerVars, runVars, selVars, poolVars>>

\* main.py:57-58  the download root and the cache directory.
MakeDirs ==
    /\ st_pc = "makedirs"
    /\ made' = made \cup {config.DOWNLOAD_DIR, CACHE_DIR}
    /\ st_pc' = "load"
    /\ UNCHANGED <<config, remote, loaded>>
    /\ UNCHANGED <<callerVars, runVars, selVars, poolVars>>

\* main.py:60-62, files.py:11-16  the URL cache and the progress document
\* are loaded; json.load raises on a damaged document.
LoadCaches ==
    /\ st_pc = "load"
    /\ \E url_cache_ok \in BOOLEAN, progress_ok \in BOOLEAN :
        /\ loaded' = loaded
                \cup (IF url_cache_ok THEN {"url_cache"} ELSE {})
                \cup (IF url_cache_ok /\ progress_ok
                      THEN {"progress"} ELSE {})
        /\ st_pc' = IF url_cache_ok /\ progress_ok
                    THEN "scan" ELSE "crashed"
    /\ UNCHANGED <<config, remote, made>>
    /\ UNCHANGED <<callerVars, runVars, selVars, poolVars>>

NextStart ==
    \/ SetupLogging
    \/ Validate
    \/ InitializeFlickrApi
    \/ MakeDirs
    \/ LoadCaches

SpecStart == InitStart /\ [][NextStart]_vars

\* ------------------------------------------------------------------
\* Claims about the start of a run
\* ------------------------------------------------------------------

\* What validate() is documented to refuse, written out.
Refused ==
    \/ config.API_KEY \in {"None", ""}
    \/ config.API_SECRET \in {"None", ""}
    \/ config.MAX_WORKERS < 1
    \/ config.API_CALL_DELAY < 0

\* A refused configuration never gets past validation.
RefusedStops == Refused => st_pc \in {"logging", "validate", "aborted"}

WorkerStep == rpc = "batch" /\ tasks' # tasks

\* A worker step leaves the Progress Set, the progress document and the URL
\* cache as they are.
WorkersLeaveShared ==
    WorkerStep => /\ downloaded_ids' = downloaded_ids
                  /\ progress_doc' = progress_doc
                  /\ url_cache' = url_cache

\* While the batch runs nothing is taken out of the Progress Set, the URL
\* cache does not change, and the control thread's step for a verified file
\* adds exactly its id to what the set held.
NoUpdateLost ==
    (rpc = "batch" /\ rpc' \in {"batch", "returned"}) =>
        /\ downloaded_ids \subseteq downloaded_ids'
        /\ url_cache' = url_cache
        /\ \A i \in TakenAsDownloaded :
              NonZero(disk[<<pd_album, i>>]) =>
                  downloaded_ids' = downloaded_ids \cup {i}

\* C31: within an album batch the Progress Set and the URL cache are read
\* and written only by the control thread; no worker fetch task reads or
\* mutates them, so under every interleaving of worker tasks no update to
\* them is lost.
C31_OnlyControlThread ==
    /\ [][WorkersLeaveShared]_vars
    /\ [][NoUpdateLost]_vars
\* The control thread has marked one item of the batch while the task of
\* another one has not run yet.
C31_Witness ==
    /\ rpc = "batch" /\ pd_ctx = "first" /\ tasks # {}
    /\ counts.downloaded = 1
    /\ \E i \in pd_items \cap downloaded_ids :
          i \notin tasks /\ results[i] = "none"

(***************************************************************************)
(* Claims about the backoff of the caller                                  *)
(***************************************************************************)

\* How the backoff of thread t changes in a step: it is set to
\* INITIAL_BACKOFF when the call is entered, doubled when the sleep after a
\* FlickrError is over, multiplied by 2.5 when a network error is caught,
\* each time up to MAX_BACKOFF, and left alone by every other step.
BackoffFollowsFailures(t) ==
    LET cap == MAX_BACKOFF * TicksPerSecond
    IN CASE pc[t] = "idle" /\ pc'[t] # "idle" ->
               backoff'[t] = INITIAL_BACKOFF * TicksPerSecond
         [] pc[t] = "backoff_sleep" /\ pc'[t] # "backoff_sleep" ->
               /\ outcome[t] \in {"rate_limit", "flickr_error"}
               /\ backoff'[t] = Min(2 * backoff[t], cap)
         [] pc[t] = "in_call" /\ pc'[t] # "in_call"
                /\ outcome[t] = "network" ->
               2 * backoff'[t] = Min(5 * backoff[t], 2 * cap)
         [] OTHER -> backoff'[t] = backoff[t]

BackoffSteps == \A t \in active : BackoffFollowsFailures(t)

\* The backoff of a call in progress lies between the two settings.
BackoffInRange ==
    \A t \in active :
        pc[t] # "idle" =>
            /\ backoff[t] >= INITIAL_BACKOFF * TicksPerSecond
            /\ backoff[t] <= MAX_BACKOFF * TicksPerSecond

\* C32: within one call_with_retries invocation the backoff starts at
\* INITIAL_BACKOFF, is multiplied by 2 after each rate-limit or server-busy
\* failure and by 2.5 after each network or timeout failure, and is at most
\* MAX_BACKOFF in every reachable state, for every sequence of failure
\* kinds.
C32_BackoffCapped ==
    /\ []BackoffInRange
    /\ [][BackoffSteps]_vars
\* A call that gave up after failures of both kinds, its backoff at the cap.
C32_Witness ==
    /\ pc[1] = "raised_exceeded"
    /\ backoff[1] = MAX_BACKOFF * TicksPerSecond
    /\ sleeps[1] >= 1 /\ sleeps[1] < retryable[1]

(***************************************************************************)
(* Claims about the counts of a pass                                       *)
(***************************************************************************)

\* The step counts one more skipped item.
SkipCounted == counts'.skipped # counts.skipped

\* What _prepare_download_tasks counts as skipped after it has asked for
\* the URL of an item: not a resolution that a failed remote call ended,
\* only one that found no candidate or whose target file exists.
SkippedOnlyWithoutCandidate ==
    /\ sel_pc \in {"raised", "no_sizes"} => ~SkipCounted
    /\ SkipCounted =>
          \/ sel_pc \in {"refused", "no_candidate"}
          \/ sel_pc \in {"cached", "hit"} /\ TargetExists(pd_album, SelItem)

\* C33: the skipped count of a scheduler pass counts only items already in
\* the Progress Set, items for which resolution found no usable candidate
\* (a video suppressed by configuration included) and items whose target
\* file exists; an item whose resolution was aborted because a remote call
\* (item info or size list) ran out of retries is not counted as skipped.
C33_ExhaustionNotSkipped == [][SkippedOnlyWithoutCandidate]_vars

\* C38: every return of process_downloads (directory not writable, nothing
\* to fetch, or after the batch) satisfies downloaded + skipped + failed =
\* number of entries of the work list it was given: each item is counted in
\* exactly one of the three counts.
C38_CountsCoverWorkList ==
    rpc = "returned" =>
        /\ counts.downloaded >= 0 /\ counts.skipped >= 0
        /\ counts.failed >= 0
        /\ counts.downloaded + counts.skipped + counts.failed
              = Cardinality(pd_items)
\* process_downloads has returned from a work list of two items, one
\* skipped and one downloaded.
C38_Witness ==
    /\ rpc = "returned" /\ Cardinality(pd_items) = 2
    /\ counts = [downloaded |-> 1, skipped |-> 1, failed |-> 0]

(***************************************************************************)
(* Claims about the retry pass                                             *)
(***************************************************************************)

\* C34: re-download after a failed verification is selective: in the retry
\* pass over an album every item whose file an earlier pass wrote into the
\* album's directory is skipped through the file-exists check and marked
\* downloaded without a new fetch; a fetch task is enqueued only for items
\* that have no file in that directory.
C34_RetryFetchesOnlyMissing ==
    (rpc = "batch" /\ pd_ctx = "retry") =>
        \A i \in tasks : ~FileExists(disk[<<pd_album, i>>])

\* A run that has no pass over 'Unsorted': in such a run a failed
\* verification is the only step that takes ids out of the Progress Set
\* (the scheduler's reset for an empty folder is handed no marked id).
NoUnsortedPass == args_album \/ UnsortedPhotos = {}

\* C35: every Progress Set reset made by a failed verification is durable:
\* whenever verify_album_completion returns fail, at the first verification
\* or at the re-verification after a retry pass, the reduced Progress Set
\* is written to the progress document before the run ends.  The set is
\* loaded from the document and every save writes the whole set, so at the
\* end of the run the document then holds no id the set lacks.
C35_ResetIsDurable ==
    (rpc = "done" /\ NoUnsortedPass) => progress_doc \subseteq downloaded_ids

\* The orchestrator is in its verification phase
\* (_handle_verification_issues): the verification of all albums, or the
\* retry passes and their re-verifications.
InVerificationPhase ==
    \/ rpc \in {"verify_all", "retry_loop", "reverify"}
    \/ rpc \in {"batch", "returned"} /\ pd_ctx = "retry"

\* More than the steps one retry pass can take.
PassWeight == 2 * MaxItems + 4

\* A number that bounds the steps the verification phase can still take.
PhaseMeasure ==
    LET left == Len(issues) - k
    IN CASE rpc = "verify_all" ->
               (Len(album_summaries) + 1) * PassWeight
                   + (Len(album_summaries) + 1 - k)
         [] rpc = "retry_loop" -> (left + 1) * PassWeight
         [] rpc = "batch" ->
               left * PassWeight + 3 + 2 * Cardinality(tasks)
                   + Cardinality({i \in Items : results[i] # "none"})
         [] rpc = "returned" -> left * PassWeight + 2
         [] rpc = "reverify" -> left * PassWeight + 1
         [] OTHER -> 0

\* Every step of the phase brings it nearer to its end.
PhaseAdvances ==
    (InVerificationPhase /\ InVerificationPhase') =>
        PhaseMeasure' < PhaseMeasure

\* An album is noted for a retry only by the step in which its verification
\* failed, and the list is otherwise only emptied.
NotedOnlyAfterFail ==
    issues' # issues =>
        \/ issues' = <<>>
        \/ /\ verdict' = "fail"
           /\ \E a \in AlbumNames : issues' = Append(issues, a)

\* The retry passes go through the noted albums one after the other: a
\* pass is started for the album the loop is at, the re-verification that
\* follows it moves the loop on whatever it finds, and nothing is noted
\* while the loop runs.
OnePassEach ==
    /\ (rpc = "retry_loop" /\ rpc' \in {"batch", "returned"}) =>
          pd_ctx' = "retry" /\ pd_album' = issues[k] /\ k' = k
    /\ (rpc # "retry_loop" /\ rpc' \in {"batch", "returned"}) =>
          (pd_ctx' = "retry" => pd_ctx = "retry" /\ pd_album' = pd_album)
    /\ rpc = "reverify" => rpc' = "retry_loop" /\ k' = k + 1
    /\ rpc \in {"retry_loop", "reverify"} => issues' = issues
    /\ (rpc = "retry_loop" /\ rpc' = "retry_loop") => k' = k + 1

\* No album is noted twice, and the measure of the phase is not negative.
IssuesDistinct ==
    /\ \A m, n \in DOMAIN issues : m # n => issues[m] # issues[n]
    /\ InVerificationPhase => PhaseMeasure >= 0

\* C36: the verify/reset/retry cycle is bounded: in one run each album gets
\* at most one retry pass, which starts only after the album's verification
\* returned fail; after the retry pass the album is verified once more and,
\* whatever the result, no further scheduler pass over it is started, so
\* the orchestrator's verification phase terminates.
C36_RetryBounded ==
    /\ []IssuesDistinct
    /\ [][PhaseAdvances]_vars
    /\ [][NotedOnlyAfterFail]_vars
    /\ [][OnePassEach]_vars
\* Two albums have been retried and the second one has failed its
\* re-verification: the retry loop is at its end.
C36_Witness ==
    /\ rpc = "retry_loop" /\ verdict = "fail"
    /\ Len(issues) = 2 /\ k = 3

(***************************************************************************)
(* Claims about the pass over 'Unsorted'                                   *)
(***************************************************************************)

\* The items the scanned albums hold.
InSomeAlbum == UNION {listing[albums[n]] : n \in DOMAIN albums}

\* C39: in a full run the work list handed to the scheduler for the
\* 'Unsorted' folder holds only items that are in no album: no item of a
\* scanned album is ever enqueued for download into 'Unsorted'.
C39_UnsortedOutsideAlbums ==
    (pd_ctx = "unsorted" /\ rpc \in {"batch", "returned"}) =>
        /\ pd_items \cap InSomeAlbum = {}
        /\ tasks \cap InSomeAlbum = {}

(***************************************************************************)
(* Part 5.  The worker pool of one batch: DownloadManager._execute_downloads *)
(* (download/manager.py), with the outcome of every fetch task fixed       *)
(***************************************************************************)

\* A pool that would drop a task when every worker is busy.
StartTaskOrDrop(i) ==
    /\ rpc = "batch" /\ i \in tasks \ in_worker
    /\ IF Cardinality(in_worker) < config.MAX_WORKERS
       THEN in_worker' = in_worker \cup {i} /\ tasks' = tasks
       ELSE in_worker' = in_worker /\ tasks' = tasks \ {i}
    /\ UNCHANGED <<fate, req, written>>
    /\ UNCHANGED <<albums, listing, videos, ext_corrected, public, args_album,
                   download_video, url_cache, progress_doc, disk,
                   downloaded_ids, photo_locations, album_summaries, rpc, k,
                   issues, pd_album, pd_items, pd_ctx, results, counts, runs,
                   verdict, direct>>
    /\ UNCHANGED <<callerVars, selVars, startVars>>

\* manager.py:204-205  ThreadPoolExecutor(max_workers=config.MAX_WORKERS):
\* a submitted task is taken by a worker when one is free
StartTask(i) ==
    /\ rpc = "batch" /\ i \in tasks \ in_worker
    /\ Cardinality(in_worker) < config.MAX_WORKERS
    /\ in_worker' = in_worker \cup {i}
    /\ UNCHANGED <<fate, req, written>>
    /\ UNCHANGED <<albums, listing, videos, ext_corrected, public, args_album,
                   download_video, url_cache, progress_doc, disk,
                   downloaded_ids, photo_locations, album_summaries, rpc, k,
                   issues, pd_album, pd_items, pd_ctx, tasks, results, counts,
                   runs, verdict, direct>>
    /\ UNCHANGED <<callerVars, selVars, startVars>>

\* manager.py:14-62, 196-202  the worker's download_file ends as the fate of
\* the task has it, and the future completes
FinishTask(i) ==
    /\ rpc = "batch" /\ i \in in_worker
    /\ disk' = [disk EXCEPT ![<<pd_album, i>>] = WrittenFile(fate[i], @)]
    /\ results' = [results EXCEPT ![i] =
                      IF IsErrorOutcome(fate[i]) THEN "ERROR" ELSE "path"]
    /\ tasks' = tasks \ {i}
    /\ in_worker' = in_worker \ {i}
    /\ UNCHANGED <<fate, req, written>>
    /\ UNCHANGED <<albums, listing, videos, ext_corrected, public, args_album,
                   download_video, url_cache, progress_doc, downloaded_ids,
                   photo_locations, album_summaries, rpc, k, issues, pd_album,
                   pd_items, pd_ctx, counts, runs>>
    /\ verdict' = "none" /\ direct' = {}
    /\ UNCHANGED <<callerVars, selVars, startVars>>

\* manager.py:114, 204-205  _execute_downloads is entered with the tasks of
\* a batch for the album "Trip": no file of theirs exists, none of them is
\* in the Progress Set, and the pool has up to as many workers as there
\* are items.
InitPool ==
    /\ CallerIdle /\ SelIdle
    /\ \E workers \in 1..MaxItems :
          config = [API_KEY |-> "key", API_SECRET |-> "secret",
                    MAX_WORKERS |-> workers, API_CALL_DELAY |-> 0,
                    DOWNLOAD_DIR |-> DefaultDownloadDir]
    /\ st_pc = "scan" /\ remote = {} /\ made = {} /\ loaded = {}
    /\ albums = <<"Trip">>
    /\ listing = [a \in AlbumNames |-> IF a = "Trip" THEN Items ELSE {}]
    /\ videos = {} /\ ext_corrected = {} /\ public = {}
    /\ args_album = FALSE /\ download_video = TRUE
    /\ tasks \in SUBSET Items /\ tasks # {}
    /\ pd_album = "Trip" /\ pd_items = tasks /\ pd_ctx = "first"
    /\ url_cache = tasks
    /\ downloaded_ids \in SUBSET (Items \ tasks)
    /\ progress_doc = downloaded_ids
    /\ disk = [p \in Dirs \X Items |-> "absent"]
    /\ photo_locations = <<>> /\ album_summaries = <<>>
    /\ rpc = "batch" /\ k = 1 /\ issues = <<>>
    /\ results = [i \in Items |-> "none"]
    /\ counts = NoCounts
    /\ runs = 1
    /\ verdict = "none" /\ direct = {}
    /\ fate \in [Items -> FetchOutcomes]
    /\ \A i \in Items \ tasks : fate[i] = "ok"
    /\ in_worker = {}
    /\ req = [ext |-> ".jpg", media_type |-> "photo", status |-> "ok",
              content_type |-> "image/jpeg"]
    /\ written = "none"

NextPool ==
    \/ \E i \in Items : StartTask(i)
    \/ \E i \in Items : FinishTask(i)
    \/ \E i \in Items : Collect(i)
    \/ FinishBatch

SpecPool == InitPool /\ [][NextPool]_vars

(***************************************************************************)
(* Claims about the order of the fetch tasks                               *)
(***************************************************************************)

\* The tasks of the batch whose fate is a file with the whole body.
FatedToSucceed == {i \in pd_items : fate[i] = "ok"}

\* What _execute_downloads has made of the batch when process_downloads
\* returns is a function of the fates alone.
ResultByFate ==
    rpc = "returned" =>
        /\ counts.downloaded = Cardinality(FatedToSucceed)
        /\ counts.failed = Cardinality(pd_items \ FatedToSucceed)
        /\ downloaded_ids \cap pd_items = FatedToSucceed
        /\ progress_doc = downloaded_ids

\* No step changes the Progress Set outside the batch.
OthersKept == downloaded_ids' \ pd_items = downloaded_ids \ pd_items

\* C37: for a fixed batch of fetch tasks with fixed per-task outcomes, the
\* counts {downloaded, failed} the pool driver returns and the resulting
\* Progress Set are the same for every order in which the tasks complete
\* and every worker-pool size >= 1.
C37_OrderIndependent ==
    /\ []ResultByFate
    /\ [][OthersKept]_vars
\* A batch of two tasks, one fated to succeed and one to fail, has been run
\* by a pool of two workers.
C37_Witness ==
    /\ rpc = "returned" /\ Cardinality(pd_items) = 2
    /\ config.MAX_WORKERS = 2
    /\ counts.downloaded = 1 /\ counts.failed = 1

(***************************************************************************)
(* Part 6.  The extension of the file a fetch task writes: download_file   *)
(* (download/manager.py)                                                   *)
(***************************************************************************)

\* The content-type headers of the responses considered.
ContentTypes ==
    {"image/jpeg", "IMAGE/JPEG", "image/png", "image/gif", "image/webp",
     "video/mp4", "video/quicktime", "video/webm",
     "application/octet-stream", "text/html", ""}

\* The extensions of filepath: manager.py:160-169 takes the extension of the
\* URL, ".mp4" or ".jpg" when it has none, and ".mp4" for a video whose URL
\* ends in .jpg, .jpeg or .png in any case.
Extensions == {".jpg", ".JPG", ".jpeg", ".png", ".gif", ".mp4", ".mov"}

\* str.lower() on the strings above
LowerText(s) ==
    CASE s = "IMAGE/JPEG" -> "image/jpeg"
      [] s = ".JPG" -> ".jpg"
      [] OTHER -> s

\* The words download_file looks for ('video' in content_type, ...) that
\* occur in a lower-case content type.
Words(ct) ==
    CASE ct = "image/jpeg" -> {"image", "jpeg"}
      [] ct = "image/png" -> {"image", "png"}
      [] ct = "image/gif" -> {"image", "gif"}
      [] ct = "image/webp" -> {"image"}
      [] ct = "video/mp4" -> {"video", "mp4"}
      [] ct = "video/quicktime" -> {"video", "quicktime"}
      [] ct = "video/webm" -> {"video"}
      [] OTHER -> {}

\* manager.py:21-42  correct_ext
CorrectExt(content_type, kind) ==
    LET w == Words(LowerText(content_type)) IN
    IF "video" \in w \/ kind = "video"
    THEN IF "mp4" \in w THEN ".mp4"
         ELSE IF "mov" \in w \/ "quicktime" \in w THEN ".mov"
         ELSE ".mp4"
    ELSE IF "image" \in w
    THEN IF "jpeg" \in w \/ "jpg" \in w THEN ".jpg"
         ELSE IF "png" \in w THEN ".png"
         ELSE IF "gif" \in w THEN ".gif"
         ELSE ".jpg"
    ELSE IF kind = "video" THEN ".mp4" ELSE ".jpg"

\* manager.py:44-48  the extension of the path that is opened for writing
FinalExt(r) ==
    LET correct_ext == CorrectExt(r.content_type, r.media_type) IN
    IF LowerText(r.ext) # LowerText(correct_ext) THEN correct_ext ELSE r.ext

\* manager.py:14-62  download_file
DownloadFile ==
    /\ written = "none"
    /\ written' = IF req.status = "ok" THEN FinalExt(req) ELSE "ERROR"
    /\ UNCHANGED <<fate, in_worker, req>>
    /\ UNCHANGED <<callerVars, runVars, selVars, startVars>>

\* manager.py:160-169, 196  a task calls download_file with the path and the
\* media type that _prepare_download_tasks gave it
InitExt ==
    /\ CallerIdle /\ RunIdle /\ SelIdle /\ StartIdle
    /\ fate = [i \in Items |-> "ok"] /\ in_worker = {}
    /\ req \in [ext : Extensions, media_type : {"photo", "video"},
                status : {"ok", "error"}, content_type : ContentTypes]
    /\ req.media_type = "video"
          => LowerText(req.ext) \notin {".jpg", ".jpeg", ".png"}
    /\ written = "none"

SpecExt == InitExt /\ [][DownloadFile]_vars

(***************************************************************************)
(* Claims about the extension of the written file                          *)
(***************************************************************************)

ImageExtensions == {".jpg", ".JPG", ".jpeg", ".png", ".gif"}
VideoExtensions == {".mp4", ".mov"}

\* download_file has written the body of the response.
FileWritten == written \notin {"none", "ERROR"}

\* C40: for every combination of URL-derived extension, item kind and
\* content-type, a response whose content-type names an image type is
\* written with an image extension and a response whose content-type names
\* a video type is written with a video extension.
C40_ExtFollowsContentType ==
    FileWritten =>
        /\ "image" \in Words(LowerText(req.content_type))
              => written \in ImageExtensions
        /\ "video" \in Words(LowerText(req.content_type))
              => written \in VideoExtensions

====
